---------------------------- MODULE Spec2Model ----------------------------
(***************************************************************************)
(* A model of the location_finder crate: the text normalizer, the lazily   *)
(* initialised key-index matcher of src/location_finder.rs and the         *)
(* explicitly loaded name-map matcher of src/location_records_loader.rs.   *)
(*                                                                         *)
(* A Rust String is a sequence of characters; a character is a one-letter  *)
(* TLA+ string, and a character outside ASCII is written by its code       *)
(* point ("U+00E9").                                                       *)
(***************************************************************************)
EXTENDS Integers, Sequences, FiniteSets, TLC

(***************************************************************************)
(* Characters                                                              *)
(***************************************************************************)
UpperSeq ==
    <<"A","B","C","D","E","F","G","H","I","J","K","L","M",
      "N","O","P","Q","R","S","T","U","V","W","X","Y","Z">>

LowerSeq ==
    <<"a","b","c","d","e","f","g","h","i","j","k","l","m",
      "n","o","p","q","r","s","t","u","v","w","x","y","z">>

Range(f) == { f[i] : i \in DOMAIN f }

AsciiUpper == Range(UpperSeq)

AsciiLower == Range(LowerSeq)

AsciiDigit == {"0","1","2","3","4","5","6","7","8","9"}

\* char::is_ascii_punctuation (the grave accent is written "U+0060")
AsciiPunctuation ==
    {"!","\"","#","$","%","&","'","(",")","*","+",",","-",".","/",
     ":",";","<","=",">","?","@","[","\\","]","^","_","U+0060","{","|","}","~"}

\* char::is_ascii_control, the members that are also ASCII whitespace
\* (tab, line feed, form feed, carriage return)
AsciiControl == {"\t","\n","\f","\r"}

\* the characters str::split_ascii_whitespace splits at
AsciiWhitespace == {" ","\t","\n","\f","\r"}

\* char::is_ascii, for the characters the model uses
IsAscii(c) ==
    c \in AsciiUpper \cup AsciiLower \cup AsciiDigit \cup AsciiPunctuation
          \cup AsciiControl \cup {" "}

\* The compatibility decomposition (NFKD) of one character.  ASCII
\* characters decompose to themselves; the characters outside ASCII the
\* model uses are listed with the decomposition the Unicode data gives them.
NfkdChar(c) ==
    CASE c = "U+00E9" -> <<"e","U+0301">>    \* e with acute
      [] c = "U+00E3" -> <<"a","U+0303">>    \* a with tilde
      [] c = "U+00CE" -> <<"I","U+0302">>    \* I with circumflex
      [] c = "U+00A0" -> <<" ">>             \* no-break space
      [] c = "U+FB01" -> <<"f","i">>         \* ligature fi
      [] OTHER        -> <<c>>               \* ASCII, combining marks, U+00DF

RECURSIVE Nfkd(_)
Nfkd(s) == IF s = <<>> THEN <<>> ELSE NfkdChar(Head(s)) \o Nfkd(Tail(s))

\* the filter closure of normalize_location_str
KeepChar(c) == IsAscii(c) /\ c \notin AsciiPunctuation /\ c \notin AsciiControl

ToLowerChar(c) ==
    IF c \in AsciiUpper
    THEN LowerSeq[CHOOSE i \in DOMAIN UpperSeq : UpperSeq[i] = c]
    ELSE c

\* str::to_lowercase on a string that is ASCII already
ToLowercase(s) == [i \in DOMAIN s |-> ToLowerChar(s[i])]

\* Split s at every character for which the set seps holds it; empty pieces
\* are kept (str::split).  cur is the piece being read.
RECURSIVE SplitAt(_, _, _)
SplitAt(s, seps, cur) ==
    IF s = <<>> THEN <<cur>>
    ELSE IF Head(s) \in seps
         THEN <<cur>> \o SplitAt(Tail(s), seps, <<>>)
         ELSE SplitAt(Tail(s), seps, Append(cur, Head(s)))

\* str::split_ascii_whitespace: the non-empty pieces between whitespace
SplitAsciiWhitespace(s) ==
    SelectSeq(SplitAt(s, AsciiWhitespace, <<>>), LAMBDA w : w # <<>>)

\* [&str]::join
RECURSIVE Join(_, _)
Join(parts, sep) ==
    IF parts = <<>> THEN <<>>
    ELSE IF Len(parts) = 1 THEN parts[1]
    ELSE parts[1] \o sep \o Join(Tail(parts), sep)

normalize_location_str(location_str) ==
    ToLowercase(
        Join(SplitAsciiWhitespace(SelectSeq(Nfkd(location_str), KeepChar)),
             <<"_">>))

\* Option<&str>: None, or Some of a string
None == [some |-> FALSE]

Some(v) == [some |-> TRUE, val |-> v]

location_key(normalized_city, normalized_state, normalized_country) ==
    LET key_parts ==
            (IF normalized_city.some THEN <<normalized_city.val>> ELSE <<>>)
         \o (IF normalized_state.some THEN <<normalized_state.val>> ELSE <<>>)
         \o (IF normalized_country.some THEN <<normalized_country.val>> ELSE <<>>)
    IN Join(key_parts, <<"_">>)

\* the characters of a string literal, as a sequence
Chars(s) == [i \in 1..Len(s) |-> SubSeq(s, i, i)]

\* str::trim: White_Space at both ends is removed
WhiteSpace == AsciiWhitespace \cup {"U+00A0"}

RECURSIVE TrimStart(_)
TrimStart(s) ==
    IF s # <<>> /\ Head(s) \in WhiteSpace THEN TrimStart(Tail(s)) ELSE s

RECURSIVE TrimEnd(_)
TrimEnd(s) ==
    IF s # <<>> /\ s[Len(s)] \in WhiteSpace
    THEN TrimEnd(SubSeq(s, 1, Len(s) - 1))
    ELSE s

Trim(s) == TrimEnd(TrimStart(s))

\* s.split(sep).map(|s| s.trim()).collect()
SplitTrim(s, sep) ==
    LET parts == SplitAt(s, {sep}, <<>>)
    IN [i \in DOMAIN parts |-> Trim(parts[i])]

\* a substring test that finds no empty needle
ContainsNonEmpty(hay, needle) ==
    /\ needle # <<>>
    /\ \E i \in 1..(Len(hay) - Len(needle) + 1) :
          SubSeq(hay, i, i + Len(needle) - 1) = needle

\* str::contains: needle occurs in hay as a contiguous substring
Contains(hay, needle) ==
    \E i \in 1..(Len(hay) - Len(needle) + 1) :
        SubSeq(hay, i, i + Len(needle) - 1) = needle

\* every sequence over S of length at most n
RECURSIVE SeqsUpTo(_, _)
SeqsUpTo(S, n) ==
    IF n = 0 THEN {<<>>}
    ELSE LET shorter == SeqsUpTo(S, n - 1)
         IN shorter \cup { Append(s, c) : s \in shorter, c \in S }

Perms(S) == { p \in [1..Cardinality(S) -> S] : Range(p) = S }

(***************************************************************************)
(* State                                                                   *)
(***************************************************************************)
VARIABLES
    normPc, normIn, normOut, normTwice,   \* the normalizer under test
    fs,          \* the dataset directories: directory -> its three csv files
    aliasFile,   \* ./data/place_alias.txt: its lines, or NoFile
    cell,        \* location_finder.rs: the OnceLock statics
    initBy,      \* per static, the thread running its initializer
    pubCount,    \* per static, how often a value was stored into it
    thread,      \* per thread: its call, its initializer stack, its result
    calls,       \* how many calls of public functions were started
    answers,     \* every (input, result) pair find_location has returned
    loaderCell,    \* location_records_loader.rs: the six OnceLock statics
    loaderThread,  \* per thread: its call, its place in it, its result
    loaderCalls,   \* how many calls of the loader's functions were started
    loadDone       \* some load_location_records call has returned Ok(())

normVars == <<normPc, normIn, normOut, normTwice>>

loaderVars == <<loaderCell, loaderThread, loaderCalls, loadDone>>

finderVars ==
    <<fs, aliasFile, cell, initBy, pubCount, thread, calls, answers>>

vars == <<normVars, finderVars, loaderVars>>

(***************************************************************************)
(* src/location_finder.rs: records, files and the lazily set statics       *)
(***************************************************************************)
\* LocationCountry, LocationState, LocationCity: the fields matching reads
LocationCountry(id, name, iso2, iso3) ==
    [id |-> id, name |-> name, iso2 |-> iso2, iso3 |-> iso3]

LocationState(id, name, country_id, country_name, state_code) ==
    [id |-> id, name |-> name, country_id |-> country_id,
     country_name |-> country_name, state_code |-> state_code]

LocationCity(id, name, state_id, state_code, state_name, country_id, country_code, country_name) ==
    [id |-> id, name |-> name, state_id |-> state_id,
     state_code |-> state_code, state_name |-> state_name,
     country_id |-> country_id, country_code |-> country_code,
     country_name |-> country_name]

\* A file is the sequence of its rows (csv) or lines (text); a csv row
\* deserializes to a record or fails to.  NoFile: the path cannot be opened.
File(rows) == [exists |-> TRUE, rows |-> rows]

Row(rec) == [ok |-> TRUE, rec |-> rec]

BadRow == [ok |-> FALSE]

NoFile == [exists |-> FALSE]

Ok(v) == [ok |-> TRUE, val |-> v]

Err(e) == [ok |-> FALSE, err |-> e]

EmptyMap == [k \in {} |-> {}]

\* the loop of load_records_by_id: insert each row that deserialized,
\* stop with Loader at the first id that was already in the map
RECURSIVE LoadRows(_, _)
LoadRows(rows, id_map) ==
    IF rows = <<>> THEN Ok(id_map)
    ELSE LET result == Head(rows)
         IN IF result.ok
            THEN IF result.rec.id \in DOMAIN id_map
                 THEN Err("Loader")
                 ELSE LoadRows(Tail(rows),
                               id_map @@ (result.rec.id :> result.rec))
            ELSE LoadRows(Tail(rows), id_map)

load_records_by_id(file) ==
    IF ~file.exists THEN Err("CSV") ELSE LoadRows(file.rows, EmptyMap)

\* the statics
CellNames ==
    {"LOCATION_DATASET_DIR", "CITY_ID_MAP", "STATE_ID_MAP", "COUNTRY_ID_MAP",
     "PLACE_ALIAS_MAP", "CITY_NAME_MAP"}

Unset == [set |-> FALSE]

Published(v) == [set |-> TRUE, val |-> v]

NoThread == "none"

init_location_dataset_dir == "./submodules/countries-states-cities-database/csv"

\* the file format!("{}/<table>.csv", dir) names
FileOf(dir, table) == IF dir \in DOMAIN fs THEN fs[dir][table] ELSE NoFile

LOCATION_DATASET_DIR == cell["LOCATION_DATASET_DIR"].val

CITY_ID_MAP == cell["CITY_ID_MAP"].val.byId

\* the order in which CITY_ID_MAP.values() yields the records
CityIterationOrder == cell["CITY_ID_MAP"].val.order

STATE_ID_MAP == cell["STATE_ID_MAP"].val

COUNTRY_ID_MAP == cell["COUNTRY_ID_MAP"].val

PLACE_ALIAS_MAP == cell["PLACE_ALIAS_MAP"].val

CITY_NAME_MAP == cell["CITY_NAME_MAP"].val

\* HashMap::get / MultiMap::get_vec on a published map
MapGet(m, k) == IF k \in DOMAIN m THEN Some(m[k]) ELSE None

\* MultiMap::insert: append v to the vector stored under k
MultiMapInsert(m, k, v) ==
    IF k \in DOMAIN m THEN [m EXCEPT ![k] = Append(@, v)]
    ELSE m @@ (k :> <<v>>)

\* init_place_alias_map: a line "key | alias" is stored, any other skipped
RECURSIVE ParseAliasLines(_, _)
ParseAliasLines(lines, place_alias_map) ==
    IF lines = <<>> THEN place_alias_map
    ELSE LET line_vec == SplitTrim(Head(lines), "|")
         IN ParseAliasLines(
                Tail(lines),
                IF Len(line_vec) = 2
                THEN MultiMapInsert(place_alias_map, line_vec[1], line_vec[2])
                ELSE place_alias_map)

init_place_alias_map(file) ==
    IF ~file.exists THEN Err("unwrap")
    ELSE Ok(ParseAliasLines(file.rows, EmptyMap))

CommaSpace == <<",", " ">>

find_alias_city_names(city_record) ==
    MapGet(PLACE_ALIAS_MAP,
           city_record.name \o CommaSpace \o city_record.state_name
               \o CommaSpace \o city_record.country_name)

find_alias_state_names(state_record) ==
    MapGet(PLACE_ALIAS_MAP,
           state_record.name \o CommaSpace \o state_record.country_name)

\* the seven keys of a city, under an optional city and state alias
list_city_location_keys(city_record, city_alias, state_alias) ==
    LET city_name ==
            normalize_location_str(
                IF city_alias.some THEN city_alias.val ELSE city_record.name)
        state_name ==
            normalize_location_str(
                IF state_alias.some THEN state_alias.val
                ELSE city_record.state_name)
        country_name == normalize_location_str(city_record.country_name)
        state_record == STATE_ID_MAP[city_record.state_id]
        state_code == normalize_location_str(state_record.state_code)
        country_record == COUNTRY_ID_MAP[city_record.country_id]
        country_code_iso2 == normalize_location_str(country_record.iso2)
        country_code_iso3 == normalize_location_str(country_record.iso3)
    IN << location_key(Some(city_name), Some(state_name), Some(country_name)),
          location_key(Some(city_name), None, Some(country_name)),
          location_key(Some(city_name), Some(state_code), Some(country_name)),
          location_key(Some(city_name), Some(state_code), Some(country_code_iso2)),
          location_key(Some(city_name), None, Some(country_code_iso2)),
          location_key(Some(city_name), Some(state_code), Some(country_code_iso3)),
          location_key(Some(city_name), None, Some(country_code_iso3)) >>

\* alias keys for the alias as a whole only: both names or none replaced
CityAliasKeysBothOnly(city_record, alias_place_name) ==
    LET name_vec == SplitTrim(alias_place_name, ",")
    IN IF city_record.name # name_vec[1] /\ city_record.state_name # name_vec[2]
       THEN Range(list_city_location_keys(city_record, Some(name_vec[1]),
                                          Some(name_vec[2])))
       ELSE {}

\* the keys one "altCity, altState" alias of a city adds
CityAliasKeys(city_record, alias_place_name) ==
    LET name_vec == SplitTrim(alias_place_name, ",")
    IN (IF city_record.name # name_vec[1] /\ city_record.state_name # name_vec[2]
        THEN Range(list_city_location_keys(city_record, Some(name_vec[1]),
                                           Some(name_vec[2])))
        ELSE {})
       \cup
       (IF city_record.state_name # name_vec[2]
        THEN Range(list_city_location_keys(city_record, None, Some(name_vec[2])))
        ELSE {})
       \cup
       (IF city_record.name # name_vec[1]
        THEN Range(list_city_location_keys(city_record, Some(name_vec[1]), None))
        ELSE {})

\* the keys one alias of a city's state adds
StateAliasKeys(city_record, state_record, alias_place_name) ==
    LET name_vec == SplitTrim(alias_place_name, ",")
    IN IF state_record.name # name_vec[1]
       THEN Range(list_city_location_keys(city_record, None, Some(name_vec[1])))
       ELSE {}

\* a key set in which the keys of the aliases take the place of the
\* city's own keys
LocationKeysSetAliasesFirst(city_record) ==
    LET city_aliases == find_alias_city_names(city_record)
    IN IF city_aliases.some
       THEN UNION { CityAliasKeys(city_record, city_aliases.val[i]) :
                    i \in DOMAIN city_aliases.val }
       ELSE Range(list_city_location_keys(city_record, None, None))

\* location_keys_set of one city: the body of the fold's closure
LocationKeysSet(city_record) ==
    LET city_aliases == find_alias_city_names(city_record)
        state_record == STATE_ID_MAP[city_record.state_id]
        state_aliases == find_alias_state_names(state_record)
    IN Range(list_city_location_keys(city_record, None, None))
       \cup (IF city_aliases.some
             THEN UNION { CityAliasKeys(city_record, city_aliases.val[i]) :
                          i \in DOMAIN city_aliases.val }
             ELSE {})
       \cup (IF state_aliases.some
             THEN UNION { StateAliasKeys(city_record, state_record,
                                         state_aliases.val[i]) :
                          i \in DOMAIN state_aliases.val }
             ELSE {})

\* one step of the fold: every key of the set gets the city's id appended
InsertKeys(city_name_map, keys, id) ==
    [k \in DOMAIN city_name_map \cup keys |->
        (IF k \in DOMAIN city_name_map THEN city_name_map[k] ELSE <<>>)
        \o (IF k \in keys THEN <<id>> ELSE <<>>)]

\* the fold of init_city_name_map over the records, in iteration order
RECURSIVE FoldCities(_, _)
FoldCities(order, city_name_map) ==
    IF order = <<>> THEN city_name_map
    ELSE LET city_record == CITY_ID_MAP[Head(order)]
         IN FoldCities(Tail(order),
                       InsertKeys(city_name_map, LocationKeysSet(city_record),
                                  city_record.id))

\* Where the closure of the fold stops for one city, given what is
\* published: at a static it has to initialize first, at an unwrap of None
\* or an index past the end of name_vec (a panic), or nowhere.
CityStatus(city_record) ==
    IF ~cell["STATE_ID_MAP"].set THEN [kind |-> "need", cell |-> "STATE_ID_MAP"]
    ELSE IF city_record.state_id \notin DOMAIN STATE_ID_MAP
    THEN [kind |-> "panic"]
    ELSE IF ~cell["COUNTRY_ID_MAP"].set
    THEN [kind |-> "need", cell |-> "COUNTRY_ID_MAP"]
    ELSE IF city_record.country_id \notin DOMAIN COUNTRY_ID_MAP
    THEN [kind |-> "panic"]
    ELSE IF ~cell["PLACE_ALIAS_MAP"].set
    THEN [kind |-> "need", cell |-> "PLACE_ALIAS_MAP"]
    ELSE LET city_aliases == find_alias_city_names(city_record)
         IN IF /\ city_aliases.some
               /\ \E i \in DOMAIN city_aliases.val :
                      Len(SplitTrim(city_aliases.val[i], ",")) < 2
            THEN [kind |-> "panic"]
            ELSE [kind |-> "ok"]

RECURSIVE FoldStatus(_)
FoldStatus(order) ==
    IF order = <<>> THEN [kind |-> "ok"]
    ELSE LET st == CityStatus(CITY_ID_MAP[Head(order)])
         IN IF st.kind = "ok" THEN FoldStatus(Tail(order)) ELSE st

\* What the initializer of static c does next: it needs another static
\* that is not published yet ("need"), it panics, or it ends ("done").
InitOutcome(c) ==
    LET Loaded(table) ==
            IF ~cell["LOCATION_DATASET_DIR"].set
            THEN [kind |-> "need", cell |-> "LOCATION_DATASET_DIR"]
            ELSE IF load_records_by_id(FileOf(LOCATION_DATASET_DIR, table)).ok
            THEN [kind |-> "done"]
            ELSE [kind |-> "panic"]
    IN CASE c = "LOCATION_DATASET_DIR" -> [kind |-> "done"]
         [] c = "CITY_ID_MAP" -> Loaded("cities")
         [] c = "STATE_ID_MAP" -> Loaded("states")
         [] c = "COUNTRY_ID_MAP" -> Loaded("countries")
         [] c = "PLACE_ALIAS_MAP" ->
              IF init_place_alias_map(aliasFile).ok THEN [kind |-> "done"]
              ELSE [kind |-> "panic"]
         [] c = "CITY_NAME_MAP" ->
              IF ~cell["CITY_ID_MAP"].set
              THEN [kind |-> "need", cell |-> "CITY_ID_MAP"]
              ELSE LET st == FoldStatus(CityIterationOrder)
                   IN IF st.kind = "ok" THEN [kind |-> "done"] ELSE st

\* The values the initializer of static c can end with.  A HashMap yields
\* its records in an order of its own, fixed when the map is built.
InitValues(c) ==
    LET Loaded(table) ==
            load_records_by_id(FileOf(LOCATION_DATASET_DIR, table)).val
    IN CASE c = "LOCATION_DATASET_DIR" -> {init_location_dataset_dir}
         [] c = "CITY_ID_MAP" ->
              { [byId |-> Loaded("cities"), order |-> o] :
                o \in Perms(DOMAIN Loaded("cities")) }
         [] c = "STATE_ID_MAP" -> {Loaded("states")}
         [] c = "COUNTRY_ID_MAP" -> {Loaded("countries")}
         [] c = "PLACE_ALIAS_MAP" -> {init_place_alias_map(aliasFile).val}
         [] c = "CITY_NAME_MAP" -> {FoldCities(CityIterationOrder, EmptyMap)}

(***************************************************************************)
(* src/location_finder.rs: find_location                                   *)
(***************************************************************************)
FullMatch(city, state, country) ==
    [kind |-> "FullMatch", city |-> city, state |-> state, country |-> country]

PartialMatch(city, country, unmatched_state) ==
    [kind |-> "PartialMatch", city |-> city, country |-> country,
     unmatched_state |-> unmatched_state]

NoMatch == [kind |-> "NoMatch"]

Panicked == [kind |-> "panic"]

\* a skip-list that was left empty
EmptySkipList == {}

init_partial_match_countries_to_skip == {Chars("United States")}

\* an override-list that was left empty
EmptyOverrideList == {}

init_partial_match_countries_to_override == {Chars("United Kingdom")}

\* Tier 1 taking the last id under the full key instead of the first
Tier1TakingLast(city_name_matches) ==
    LET city_record == CITY_ID_MAP[city_name_matches[Len(city_name_matches)]]
    IN FullMatch(city_record.id, city_record.state_id, city_record.country_id)

\* Tier 1: the first id under the full key
Tier1(city_name_matches) ==
    LET city_id == Head(city_name_matches)
        city_record == MapGet(CITY_ID_MAP, city_id)
    IN IF ~city_record.some THEN Panicked
       ELSE LET state_record == MapGet(STATE_ID_MAP, city_record.val.state_id)
                country_record ==
                    MapGet(COUNTRY_ID_MAP, city_record.val.country_id)
            IN IF ~state_record.some \/ ~country_record.some THEN Panicked
               ELSE FullMatch(city_record.val.id, state_record.val.id,
                              country_record.val.id)

\* Tier 2 under the first-match policy: the first candidate no rule
\* accepts is returned as PartialMatch at once
RECURSIVE Tier2FirstPartial(_, _, _)
Tier2FirstPartial(city_name_matches, state, partial_matches) ==
    IF city_name_matches = <<>> THEN NoMatch
    ELSE
    LET city_record == CITY_ID_MAP[Head(city_name_matches)]
        country_name == COUNTRY_ID_MAP[city_record.country_id].name
        unmatched_state_name ==
            normalize_location_str(STATE_ID_MAP[city_record.state_id].name)
    IN IF country_name \in init_partial_match_countries_to_skip
       THEN Tier2FirstPartial(Tail(city_name_matches), state, partial_matches)
       ELSE IF \/ country_name \in init_partial_match_countries_to_override
               \/ Contains(unmatched_state_name, state)
               \/ Contains(state, unmatched_state_name)
       THEN FullMatch(city_record.id, city_record.state_id,
                      city_record.country_id)
       ELSE PartialMatch(city_record.id, city_record.country_id,
                         city_record.state_id)

\* Tier 2 with the substring test in one direction only: the state text
\* has to contain the name of the state
RECURSIVE Tier2ContainsOneWay(_, _, _)
Tier2ContainsOneWay(city_name_matches, state, partial_matches) ==
    IF city_name_matches = <<>>
    THEN IF Len(partial_matches) = 1 THEN partial_matches[1] ELSE NoMatch
    ELSE
    LET city_record == CITY_ID_MAP[Head(city_name_matches)]
        country_name == COUNTRY_ID_MAP[city_record.country_id].name
        unmatched_state_name ==
            normalize_location_str(STATE_ID_MAP[city_record.state_id].name)
    IN IF country_name \in init_partial_match_countries_to_skip
       THEN Tier2ContainsOneWay(Tail(city_name_matches), state,
                                partial_matches)
       ELSE IF \/ country_name \in init_partial_match_countries_to_override
               \/ Contains(state, unmatched_state_name)
       THEN FullMatch(city_record.id, city_record.state_id,
                      city_record.country_id)
       ELSE Tier2ContainsOneWay(Tail(city_name_matches), state,
                                Append(partial_matches,
                                       PartialMatch(city_record.id,
                                                    city_record.country_id,
                                                    city_record.state_id)))

\* Tier 2: the loop over the ids under the city+country key
RECURSIVE Tier2(_, _, _)
Tier2(city_name_matches, state, partial_matches) ==
    IF city_name_matches = <<>>
    THEN IF Len(partial_matches) = 1 THEN partial_matches[1] ELSE NoMatch
    ELSE
    LET city_id == Head(city_name_matches)
        city == MapGet(CITY_ID_MAP, city_id)
    IN IF ~city.some THEN Panicked
       ELSE
       LET city_record == city.val
           country == MapGet(COUNTRY_ID_MAP, city_record.country_id)
       IN IF ~country.some THEN Panicked
          ELSE IF country.val.name \in init_partial_match_countries_to_skip
          THEN Tier2(Tail(city_name_matches), state, partial_matches)
          ELSE IF country.val.name \in init_partial_match_countries_to_override
          THEN FullMatch(city_record.id, city_record.state_id,
                         city_record.country_id)
          ELSE
          LET unmatched_state_record ==
                  MapGet(STATE_ID_MAP, city_record.state_id)
          IN IF ~unmatched_state_record.some THEN Panicked
             ELSE
             LET unmatched_state_name ==
                     normalize_location_str(unmatched_state_record.val.name)
             IN IF \/ Contains(unmatched_state_name, state)
                   \/ Contains(state, unmatched_state_name)
                THEN FullMatch(city_record.id, city_record.state_id,
                               city_record.country_id)
                ELSE Tier2(Tail(city_name_matches), state,
                           Append(partial_matches,
                                  PartialMatch(city_record.id,
                                               city_record.country_id,
                                               city_record.state_id)))

\* the body of find_location, given the value of CITY_NAME_MAP
find_location_on(city_name_map, city_in, state_in, country_in) ==
    LET city == normalize_location_str(city_in)
        state == normalize_location_str(state_in)
        country == normalize_location_str(country_in)
        full == MapGet(city_name_map,
                       location_key(Some(city), Some(state), Some(country)))
        coarse == MapGet(city_name_map,
                         location_key(Some(city), None, Some(country)))
    IN IF full.some /\ full.val # <<>> THEN Tier1(full.val)
       ELSE IF coarse.some THEN Tier2(coarse.val, state, <<>>)
       ELSE NoMatch

\* find_location once CITY_NAME_MAP is published
find_location(city_in, state_in, country_in) ==
    find_location_on(CITY_NAME_MAP, city_in, state_in, country_in)

(***************************************************************************)
(* src/location_finder.rs: threads calling the public functions            *)
(***************************************************************************)
FindCall(city_in, state_in, country_in) ==
    [op |-> "find_location", city |-> city_in, state |-> state_in,
     country |-> country_in]

GetCall(op, id) == [op |-> op, id |-> id]

SetDirCall(location_dataset_dir) ==
    [op |-> "set_location_dataset_dir", dir |-> location_dataset_dir]

NoCall == [op |-> "none"]

NoResult == [kind |-> "none"]

Idle == [pc |-> "idle", call |-> NoCall, stack |-> <<>>, ret |-> NoResult]

\* the static a public function reads through get_or_init
TopCell(call) ==
    CASE call.op = "find_location" -> "CITY_NAME_MAP"
      [] call.op = "get_city_by_id" -> "CITY_ID_MAP"
      [] call.op = "get_state_by_id" -> "STATE_ID_MAP"
      [] call.op = "get_country_by_id" -> "COUNTRY_ID_MAP"

\* the static thread t has to see published before it can go on
Needed(t) ==
    IF thread[t].stack = <<>>
    THEN TopCell(thread[t].call)
    ELSE InitOutcome(thread[t].stack[Len(thread[t].stack)]).cell

\* a cell that lets every caller that finds it empty run the initializer
OnceIdleRacy(c) == TRUE

\* OnceLock: nobody is running the initializer of static c
OnceIdle(c) == initBy[c] = NoThread

\* a thread calls a public function
Call(t, call) ==
    /\ thread[t].pc \in {"idle", "returned"}
    /\ thread' = [thread EXCEPT ![t] =
                     [pc |-> "running", call |-> call, stack |-> <<>>,
                      ret |-> NoResult]]
    /\ calls' = calls + 1
    /\ UNCHANGED <<fs, aliasFile, cell, initBy, pubCount, answers>>

\* get_or_init on a static that is not published: the thread becomes its
\* initializer, unless another thread is (then it waits)
StartInit(t) ==
    /\ thread[t].pc = "running"
    /\ thread[t].call.op # "set_location_dataset_dir"
    /\ IF thread[t].stack = <<>> THEN TRUE
       ELSE InitOutcome(thread[t].stack[Len(thread[t].stack)]).kind = "need"
    /\ ~cell[Needed(t)].set
    /\ OnceIdle(Needed(t))
    /\ initBy' = [initBy EXCEPT ![Needed(t)] = t]
    /\ thread' = [thread EXCEPT ![t].stack = Append(@, Needed(t))]
    /\ UNCHANGED <<fs, aliasFile, cell, pubCount, calls, answers>>

\* the initializer on top of the thread's stack ends: its value is stored
Publish(t) ==
    /\ thread[t].pc = "running"
    /\ thread[t].stack # <<>>
    /\ LET c == thread[t].stack[Len(thread[t].stack)]
           out == InitOutcome(c)
       IN /\ out.kind = "done"
          /\ \E v \in InitValues(c) : cell' = [cell EXCEPT ![c] = Published(v)]
          /\ pubCount' = [pubCount EXCEPT ![c] = @ + 1]
          /\ initBy' = [initBy EXCEPT ![c] = NoThread]
          /\ thread' = [thread EXCEPT ![t].stack = SubSeq(@, 1, Len(@) - 1)]
    /\ UNCHANGED <<fs, aliasFile, calls, answers>>

\* the initializer on top of the stack panics (expect / unwrap): the panic
\* unwinds through every get_or_init of the thread, none of them stores
Panic(t) ==
    /\ thread[t].pc = "running"
    /\ thread[t].stack # <<>>
    /\ InitOutcome(thread[t].stack[Len(thread[t].stack)]).kind = "panic"
    /\ initBy' = [c \in CellNames |->
                     IF initBy[c] = t THEN NoThread ELSE initBy[c]]
    /\ thread' = [thread EXCEPT ![t].pc = "panicked", ![t].stack = <<>>]
    /\ UNCHANGED <<fs, aliasFile, cell, pubCount, calls, answers>>

\* a matcher that keeps a tally across calls: from the third call on
\* find_location answers from the tally and not from the index
ResultOfWithTally(call) ==
    CASE call.op = "find_location" ->
              IF calls > 2 THEN NoMatch
              ELSE find_location(call.city, call.state, call.country)
      [] call.op = "get_city_by_id" -> MapGet(CITY_ID_MAP, call.id)
      [] call.op = "get_state_by_id" -> MapGet(STATE_ID_MAP, call.id)
      [] call.op = "get_country_by_id" -> MapGet(COUNTRY_ID_MAP, call.id)

\* what a public function returns once its static is published
ResultOf(call) ==
    CASE call.op = "find_location" ->
              find_location(call.city, call.state, call.country)
      [] call.op = "get_city_by_id" -> MapGet(CITY_ID_MAP, call.id)
      [] call.op = "get_state_by_id" -> MapGet(STATE_ID_MAP, call.id)
      [] call.op = "get_country_by_id" -> MapGet(COUNTRY_ID_MAP, call.id)

\* the rest of the public function, after its get_or_init returned
Return(t) ==
    /\ thread[t].pc = "running"
    /\ thread[t].call.op # "set_location_dataset_dir"
    /\ thread[t].stack = <<>>
    /\ cell[TopCell(thread[t].call)].set
    /\ LET r == ResultOf(thread[t].call)
       IN /\ thread' = [thread EXCEPT
                           ![t].pc = IF r = Panicked THEN "panicked"
                                     ELSE "returned",
                           ![t].ret = r]
          /\ answers' = IF thread[t].call.op = "find_location"
                        THEN answers \cup {<<thread[t].call, r>>}
                        ELSE answers
    /\ UNCHANGED <<fs, aliasFile, cell, initBy, pubCount, calls>>

\* a set_location_dataset_dir that stores its directory over the one that
\* is stored already
SetLocationDatasetDirOverwriting(t) ==
    /\ thread[t].pc = "running"
    /\ thread[t].call.op = "set_location_dataset_dir"
    /\ IF ~thread[t].call.dir.some
       THEN UNCHANGED <<cell, pubCount>>
       ELSE /\ OnceIdle("LOCATION_DATASET_DIR")
            /\ cell' = [cell EXCEPT !["LOCATION_DATASET_DIR"] =
                            Published(thread[t].call.dir.val)]
            /\ pubCount' = [pubCount EXCEPT !["LOCATION_DATASET_DIR"] = @ + 1]
    /\ thread' = [thread EXCEPT ![t].pc = "returned"]
    /\ UNCHANGED <<fs, aliasFile, initBy, calls, answers>>

\* set_location_dataset_dir: None does nothing; Some(d) stores d unless a
\* directory is stored already, and then the expect panics
SetLocationDatasetDir(t) ==
    /\ thread[t].pc = "running"
    /\ thread[t].call.op = "set_location_dataset_dir"
    /\ IF ~thread[t].call.dir.some
       THEN /\ thread' = [thread EXCEPT ![t].pc = "returned"]
            /\ UNCHANGED <<cell, pubCount>>
       ELSE /\ OnceIdle("LOCATION_DATASET_DIR")
            /\ IF cell["LOCATION_DATASET_DIR"].set
               THEN /\ thread' = [thread EXCEPT ![t].pc = "panicked"]
                    /\ UNCHANGED <<cell, pubCount>>
               ELSE /\ cell' = [cell EXCEPT !["LOCATION_DATASET_DIR"] =
                                   Published(thread[t].call.dir.val)]
                    /\ pubCount' = [pubCount EXCEPT
                                       !["LOCATION_DATASET_DIR"] = @ + 1]
                    /\ thread' = [thread EXCEPT ![t].pc = "returned"]
    /\ UNCHANGED <<fs, aliasFile, initBy, calls, answers>>

\* the variables the key-index matcher leaves alone
otherVars == <<normVars, loaderVars>>

SomeStartInit == (\E t \in DOMAIN thread : StartInit(t)) /\ UNCHANGED otherVars

SomePublish == (\E t \in DOMAIN thread : Publish(t)) /\ UNCHANGED otherVars

SomePanic == (\E t \in DOMAIN thread : Panic(t)) /\ UNCHANGED otherVars

SomeReturn == (\E t \in DOMAIN thread : Return(t)) /\ UNCHANGED otherVars

SomeSetLocationDatasetDir ==
    (\E t \in DOMAIN thread : SetLocationDatasetDir(t)) /\ UNCHANGED otherVars

(***************************************************************************)
(* A gazetteer to run the key-index matcher on                             *)
(***************************************************************************)
US == LocationCountry(1, Chars("United States"), Chars("US"), Chars("USA"))

UK == LocationCountry(2, Chars("United Kingdom"), Chars("GB"), Chars("GBR"))

IT == LocationCountry(3, Chars("Italy"), Chars("IT"), Chars("ITA"))

\* a country whose name normalizes to the ISO2 code of another
GbLand == LocationCountry(4, Chars("Gb"), Chars("XG"), Chars("XGB"))

NewYork == LocationState(10, Chars("New York"), 1, Chars("United States"),
                         Chars("NY"))

England == LocationState(20, Chars("England"), 2, Chars("United Kingdom"),
                         Chars("ENG"))

Lombardy == LocationState(30, Chars("Lombardy"), 3, Chars("Italy"), Chars("25"))

Tuscany == LocationState(31, Chars("Tuscany"), 3, Chars("Italy"), Chars("52"))

Somerset == LocationState(40, Chars("Somerset"), 4, Chars("Gb"), Chars("SOM"))

MilanLombardy ==
    LocationCity(101, Chars("Milan"), 30, Chars("25"), Chars("Lombardy"),
                 3, Chars("IT"), Chars("Italy"))

\* its state_name copy is the Italian spelling, its state record is Tuscany
MilanTuscany ==
    LocationCity(102, Chars("Milan"), 31, Chars("52"), Chars("Toscana"),
                 3, Chars("IT"), Chars("Italy"))

\* a second record of the same place under another id
MilanLombardyAgain ==
    LocationCity(103, Chars("Milan"), 30, Chars("25"), Chars("Lombardy"),
                 3, Chars("IT"), Chars("Italy"))

MilanNewYork ==
    LocationCity(104, Chars("Milan"), 10, Chars("NY"), Chars("New York"),
                 1, Chars("US"), Chars("United States"))

BathEngland ==
    LocationCity(105, Chars("Bath"), 20, Chars("ENG"), Chars("England"),
                 2, Chars("GB"), Chars("United Kingdom"))

BathSomerset ==
    LocationCity(106, Chars("Bath"), 40, Chars("SOM"), Chars("Somerset"),
                 4, Chars("XG"), Chars("Gb"))

\* a city whose state_id names no state record
BathNowhere ==
    LocationCity(107, Chars("Bath"), 99, Chars("ZZ"), Chars("Nowhere"),
                 2, Chars("GB"), Chars("United Kingdom"))

\* a city of Tuscany that no line of the alias file names
BathTuscany ==
    LocationCity(110, Chars("Bath"), 31, Chars("52"), Chars("Tuscany"),
                 3, Chars("IT"), Chars("Italy"))

CityPool ==
    {MilanLombardy, MilanTuscany, MilanLombardyAgain, MilanNewYork,
     BathEngland, BathSomerset, BathNowhere, BathTuscany}

CountriesCsv == File(<<Row(US), Row(UK), BadRow, Row(IT), Row(GbLand)>>)

StatesCsv ==
    File(<<Row(NewYork), Row(England), Row(Lombardy), Row(Tuscany),
           Row(Somerset)>>)

PlaceAliasTxt ==
    File(<< Chars("Milan, Lombardy, Italy | Milano, Lombardia"),
            Chars("Lombardy, Italy | Lombardia"),
            <<>>,
            Chars("not an alias line") >>)

\* cities.csv: at most MaxRows rows
MaxRows == 2

\* the rows in the order of their ids: load_records_by_id keeps no order
CitiesCsvs ==
    { File([i \in DOMAIN s |-> Row(s[i])]) :
      s \in { q \in SeqsUpTo(CityPool, MaxRows) :
               \A i \in 1..(Len(q) - 1) : q[i].id <= q[i + 1].id } }

CityTexts == {Chars("Milan"), Chars("MILANO"), Chars("Bath")}

StateTexts ==
    {Chars("Lombardy"), Chars("Lombardia"), Chars("Tusc"), Chars("NY"),
     <<>>, Chars("Zzz"), Chars("Toscana"), Chars("Tuscany (IT)")}

CountryTexts == {Chars("Italy"), Chars("united  states"), Chars("GB")}

FindCalls ==
    { FindCall(c, s, k) : c \in CityTexts, s \in StateTexts, k \in CountryTexts }

NormIdle ==
    /\ normPc = "idle"
    /\ normIn = <<>>
    /\ normOut = <<>>
    /\ normTwice = <<>>

\* the key-index matcher is not used
FinderQuiet ==
    /\ aliasFile = NoFile
    /\ cell = [c \in CellNames |-> Unset]
    /\ initBy = [c \in CellNames |-> NoThread]
    /\ pubCount = [c \in CellNames |-> 0]
    /\ thread = EmptyMap
    /\ calls = 0
    /\ answers = {}

LoaderIdle ==
    /\ loaderCell = EmptyMap
    /\ loaderThread = EmptyMap
    /\ loaderCalls = 0
    /\ loadDone = FALSE

(***************************************************************************)
(* SpecMatch: one thread makes one find_location call on a gazetteer       *)
(***************************************************************************)
InitMatch ==
    /\ NormIdle
    /\ LoaderIdle
    /\ \E cities \in CitiesCsvs :
          fs = (init_location_dataset_dir :>
                  [countries |-> CountriesCsv, states |-> StatesCsv,
                   cities |-> cities])
    /\ aliasFile = PlaceAliasTxt
    /\ cell = [c \in CellNames |-> Unset]
    /\ initBy = [c \in CellNames |-> NoThread]
    /\ pubCount = [c \in CellNames |-> 0]
    /\ thread = [t \in {"t1"} |-> Idle]
    /\ calls = 0
    /\ answers = {}

\* the thread's one call
MatchCall ==
    /\ \E t \in DOMAIN thread, call \in FindCalls :
          thread[t].pc = "idle" /\ Call(t, call)
    /\ UNCHANGED otherVars

NextMatch ==
    \/ MatchCall
    \/ SomeStartInit
    \/ SomePublish
    \/ SomePanic
    \/ SomeReturn

SpecMatch == InitMatch /\ [][NextMatch]_vars

(***************************************************************************)
(* SpecKeys: one find_location call on a gazetteer whose names and codes   *)
(* make underscore-joined keys coincide: a city name of two words and a    *)
(* state code of punctuation only                                          *)
(***************************************************************************)
Guam == LocationState(12, Chars("Guam"), 1, Chars("United States"), Chars("-"))

MilanNY ==
    LocationCity(111, Chars("Milan NY"), 10, Chars("NY"), Chars("New York"),
                 1, Chars("US"), Chars("United States"))

MilanGuam ==
    LocationCity(112, Chars("Milan"), 12, Chars("-"), Chars("Guam"),
                 1, Chars("US"), Chars("United States"))

KeysStatesCsv ==
    File(<<Row(NewYork), Row(Lombardy), Row(Tuscany), Row(Guam)>>)

KeysCityPool ==
    {MilanLombardy, MilanTuscany, MilanNewYork, MilanNY, MilanGuam,
     BathNowhere}

KeysCitiesCsvs ==
    { File([i \in DOMAIN s |-> Row(s[i])]) :
      s \in { q \in SeqsUpTo(KeysCityPool, MaxRows) :
               \A i \in 1..(Len(q) - 1) : q[i].id <= q[i + 1].id } }

KeysFindCalls ==
    { FindCall(c, s, k) :
        c \in {Chars("Milan"), Chars("Milan NY"), Chars("Milano")},
        s \in {Chars("NY"), Chars("New York"), <<>>, Chars("-."),
               Chars("Lombardia"), Chars("Zzz")},
        k \in {Chars("united  states"), Chars("US"), Chars("Italy")} }

InitKeys ==
    /\ NormIdle
    /\ LoaderIdle
    /\ \E cities \in KeysCitiesCsvs :
          fs = (init_location_dataset_dir :>
                  [countries |-> CountriesCsv, states |-> KeysStatesCsv,
                   cities |-> cities])
    /\ aliasFile = PlaceAliasTxt
    /\ cell = [c \in CellNames |-> Unset]
    /\ initBy = [c \in CellNames |-> NoThread]
    /\ pubCount = [c \in CellNames |-> 0]
    /\ thread = [t \in {"t1"} |-> Idle]
    /\ calls = 0
    /\ answers = {}

KeysCall ==
    /\ \E t \in DOMAIN thread, call \in KeysFindCalls :
          thread[t].pc = "idle" /\ Call(t, call)
    /\ UNCHANGED otherVars

NextKeys ==
    \/ KeysCall
    \/ SomeStartInit
    \/ SomePublish
    \/ SomePanic
    \/ SomeReturn

SpecKeys == InitKeys /\ [][NextKeys]_vars

(***************************************************************************)
(* SpecIndex: the key index is built from a gazetteer and an alias file    *)
(* whose lines change the city name, the state name, both or neither       *)
(***************************************************************************)
AliasLinePool ==
    << Chars("Milan, Lombardy, Italy | Milano, Lombardia"),
       Chars("Milan, Lombardy, Italy | Milan, Lombardia"),
       Chars("Milan, Lombardy, Italy | Milano, Lombardy"),
       Chars("Milan, Lombardy, Italy | Milan, Lombardy"),
       Chars("Lombardy, Italy | Lombardia"),
       Chars("Lombardy, Italy | Lombardy"),
       Chars("Tuscany, Italy | Toscana"),
       Chars("Milan, Toscana, Italy | Milano, Tuscany"),
       Chars("Milan, Lombardy, Italy | Milano") >>

\* place_alias.txt: at most MaxRows lines of the pool, in the pool's order
AliasFiles ==
    { File([i \in DOMAIN q |-> AliasLinePool[q[i]]]) :
      q \in { r \in SeqsUpTo(DOMAIN AliasLinePool, MaxRows) :
               \A i \in 1..(Len(r) - 1) : r[i] < r[i + 1] } }

IndexCityPool ==
    {MilanLombardy, MilanTuscany, MilanLombardyAgain, BathNowhere}

IndexCitiesCsvs ==
    { File([i \in DOMAIN s |-> Row(s[i])]) :
      s \in { q \in SeqsUpTo(IndexCityPool, MaxRows) :
               \A i \in 1..(Len(q) - 1) : q[i].id <= q[i + 1].id } }

IndexCalls ==
    {FindCall(Chars("Milano"), Chars("Lombardia"), Chars("Italy")),
     FindCall(Chars("Milan"), Chars("Toscana"), Chars("Italy"))}

InitIndex ==
    /\ NormIdle
    /\ LoaderIdle
    /\ \E cities \in IndexCitiesCsvs :
          fs = (init_location_dataset_dir :>
                  [countries |-> CountriesCsv, states |-> StatesCsv,
                   cities |-> cities])
    /\ aliasFile \in AliasFiles
    /\ cell = [c \in CellNames |-> Unset]
    /\ initBy = [c \in CellNames |-> NoThread]
    /\ pubCount = [c \in CellNames |-> 0]
    /\ thread = [t \in {"t1"} |-> Idle]
    /\ calls = 0
    /\ answers = {}

IndexCall ==
    /\ \E t \in DOMAIN thread, call \in IndexCalls :
          thread[t].pc = "idle" /\ Call(t, call)
    /\ UNCHANGED otherVars

NextIndex ==
    \/ IndexCall
    \/ SomeStartInit
    \/ SomePublish
    \/ SomePanic
    \/ SomeReturn

SpecIndex == InitIndex /\ [][NextIndex]_vars

(***************************************************************************)
(* SpecLazy: threads call the public functions of location_finder.rs in    *)
(* any interleaving, on gazetteers with and without duplicate ids          *)
(***************************************************************************)
NumThreads == 2

MaxCalls == 3

ThreadNames == <<"t1", "t2", "t3", "t4">>

LazyThreads == { ThreadNames[i] : i \in 1..NumThreads }

OtherDir == "./data/csv"

GoodTables ==
    [countries |-> CountriesCsv, states |-> StatesCsv,
     cities |-> File(<<Row(MilanLombardy), Row(MilanLombardyAgain),
                       Row(BathSomerset)>>)]

OtherTables ==
    [countries |-> CountriesCsv, states |-> StatesCsv,
     cities |-> File(<<Row(BathEngland)>>)]

\* the tables of the default directory, one of them with an id twice
LazyTables ==
    { GoodTables,
      [GoodTables EXCEPT !.countries = File(<<Row(US), Row(IT), Row(IT)>>)],
      [GoodTables EXCEPT !.states = File(<<Row(Lombardy), Row(Lombardy)>>)],
      [GoodTables EXCEPT
          !.cities = File(<<Row(MilanLombardy), Row(MilanLombardy)>>)] }

LazyCalls ==
    { FindCall(Chars("Milan"), Chars("Lombardy"), Chars("Italy")),
      FindCall(Chars("Bath"), Chars("Zzz"), Chars("GB")),
      GetCall("get_city_by_id", 101),
      SetDirCall(None),
      SetDirCall(Some(OtherDir)) }

InitLazy ==
    /\ NormIdle
    /\ LoaderIdle
    /\ \E tables \in LazyTables :
          fs = (init_location_dataset_dir :> tables) @@ (OtherDir :> OtherTables)
    /\ aliasFile = PlaceAliasTxt
    /\ cell = [c \in CellNames |-> Unset]
    /\ initBy = [c \in CellNames |-> NoThread]
    /\ pubCount = [c \in CellNames |-> 0]
    /\ thread = [t \in LazyThreads |-> Idle]
    /\ calls = 0
    /\ answers = {}

\* a thread that is not inside a call makes one of the MaxCalls calls
LazyCall ==
    /\ \E t \in DOMAIN thread, call \in LazyCalls :
          calls < MaxCalls /\ Call(t, call)
    /\ UNCHANGED otherVars

NextLazy ==
    \/ LazyCall
    \/ SomeStartInit
    \/ SomePublish
    \/ SomePanic
    \/ SomeReturn
    \/ SomeSetLocationDatasetDir

SpecLazy == InitLazy /\ [][NextLazy]_vars

(***************************************************************************)
(* src/location_records_loader.rs: the statics and load_location_records   *)
(***************************************************************************)
LoaderCellNames ==
    {"COUNTRY_ID_MAP", "COUNTRY_NAME_MAP", "STATE_ID_MAP", "STATE_NAME_MAP",
     "CITY_ID_MAP", "CITY_NAME_MAP"}

\* a read that takes a static that is not set for an empty map
OnceLockGetOrEmpty(c) ==
    Some(IF loaderCell[c].set THEN loaderCell[c].val ELSE EmptyMap)

\* OnceLock::get on a static of the loader
OnceLockGet(c) == IF loaderCell[c].set THEN Some(loaderCell[c].val) ELSE None

\* the loader's own normalize_location_str
loader_normalize_location_str(location_str) ==
    ToLowercase(
        Join(SplitAsciiWhitespace(SelectSeq(Nfkd(location_str), KeepChar)),
             <<"_">>))

\* the loop of load_records: a row that deserialized goes into both maps,
\* the first id seen before ends the load with Loader, other rows are skipped
RECURSIVE LoadRecordsRows(_, _, _)
LoadRecordsRows(rows, id_map, name_map) ==
    IF rows = <<>> THEN Ok([id_map |-> id_map, name_map |-> name_map])
    ELSE LET result == Head(rows)
         IN IF result.ok
            THEN IF result.rec.id \in DOMAIN id_map
                 THEN Err("Loader")
                 ELSE LoadRecordsRows(
                          Tail(rows),
                          id_map @@ (result.rec.id :> result.rec),
                          MultiMapInsert(
                              name_map,
                              loader_normalize_location_str(result.rec.name),
                              result.rec))
            ELSE LoadRecordsRows(Tail(rows), id_map, name_map)

\* load_records up to its first set: csv::Reader::from_path, then the loop
ReadRecords(file) ==
    IF ~file.exists THEN Err("CSV")
    ELSE LoadRecordsRows(file.rows, EmptyMap, EmptyMap)

\* a load that begins with the cities and ends with the countries
LoadOrderCitiesFirst == <<"cities", "states", "countries">>

\* load_location_records: the three load_records calls in their order
LoadOrder == <<"countries", "states", "cities">>

StaticIdMap(table) ==
    CASE table = "countries" -> "COUNTRY_ID_MAP"
      [] table = "states" -> "STATE_ID_MAP"
      [] table = "cities" -> "CITY_ID_MAP"

StaticNameMap(table) ==
    CASE table = "countries" -> "COUNTRY_NAME_MAP"
      [] table = "states" -> "STATE_NAME_MAP"
      [] table = "cities" -> "CITY_NAME_MAP"

LoadCall(location_dataset_dir) ==
    [op |-> "load_location_records", dir |-> location_dataset_dir]

\* location_dataset_dir.unwrap_or(the default directory)
LoadDir(call) ==
    IF call.dir.some THEN call.dir.val
    ELSE "./submodules/countries-states-cities-database/csv"

LoaderThreadIdle ==
    [pc |-> "idle", call |-> NoCall, table |-> 0, ret |-> NoResult]

\* a thread calls load_location_records or the loader's find_location
LoaderCall(t, call) ==
    /\ loaderThread[t].pc \in {"idle", "returned"}
    /\ loaderThread' =
          [loaderThread EXCEPT ![t] =
              [pc |-> IF call.op = "load_location_records"
                      THEN "set_id_map" ELSE "get_city_name_map",
               call |-> call,
               table |-> IF call.op = "load_location_records" THEN 1 ELSE 0,
               ret |-> NoResult]]
    /\ loaderCalls' = loaderCalls + 1
    /\ UNCHANGED <<loaderCell, loadDone>>

\* the thread's call returns r
LoaderReturns(t, r) ==
    loaderThread' = [loaderThread EXCEPT ![t].pc = "returned", ![t].ret = r]

\* a load_records whose id map is stored over the one that is published
LoadRecordsSetIdMapOverwriting(t) ==
    /\ loaderThread[t].pc = "set_id_map"
    /\ LET table == LoadOrder[loaderThread[t].table]
           read == ReadRecords(FileOf(LoadDir(loaderThread[t].call), table))
       IN IF ~read.ok
          THEN LoaderReturns(t, read) /\ UNCHANGED loaderCell
          ELSE /\ loaderCell' = [loaderCell EXCEPT ![StaticIdMap(table)] =
                                    Published(read.val.id_map)]
               /\ loaderThread' =
                     [loaderThread EXCEPT ![t].pc = "set_name_map"]
    /\ UNCHANGED <<loaderCalls, loadDone>>

\* load_records: the file is read into id_map and name_map (an error ends
\* the whole load through `?`), then static_id_map.set(id_map)
LoadRecordsSetIdMap(t) ==
    /\ loaderThread[t].pc = "set_id_map"
    /\ LET table == LoadOrder[loaderThread[t].table]
           read == ReadRecords(FileOf(LoadDir(loaderThread[t].call), table))
       IN IF ~read.ok
          THEN LoaderReturns(t, read) /\ UNCHANGED loaderCell
          ELSE IF loaderCell[StaticIdMap(table)].set
          THEN LoaderReturns(t, Err("Loader")) /\ UNCHANGED loaderCell
          ELSE /\ loaderCell' = [loaderCell EXCEPT ![StaticIdMap(table)] =
                                    Published(read.val.id_map)]
               /\ loaderThread' =
                     [loaderThread EXCEPT ![t].pc = "set_name_map"]
    /\ UNCHANGED <<loaderCalls, loadDone>>

\* load_records: static_name_map.set(name_map)
LoadRecordsSetNameMap(t) ==
    /\ loaderThread[t].pc = "set_name_map"
    /\ LET table == LoadOrder[loaderThread[t].table]
           read == ReadRecords(FileOf(LoadDir(loaderThread[t].call), table))
       IN IF loaderCell[StaticNameMap(table)].set
          THEN LoaderReturns(t, Err("Loader")) /\ UNCHANGED loaderCell
          ELSE /\ loaderCell' = [loaderCell EXCEPT ![StaticNameMap(table)] =
                                    Published(read.val.name_map)]
               /\ loaderThread' = [loaderThread EXCEPT ![t].pc = "logged"]
    /\ UNCHANGED <<loaderCalls, loadDone>>

\* load_records: the info! line reads the id map back and load_records
\* returns; load_location_records goes on to the next table or returns Ok
LoadRecordsReturn(t) ==
    /\ loaderThread[t].pc = "logged"
    /\ LET table == LoadOrder[loaderThread[t].table]
       IN IF ~OnceLockGet(StaticIdMap(table)).some
          THEN LoaderReturns(t, Err("Loader")) /\ UNCHANGED loadDone
          ELSE IF loaderThread[t].table < Len(LoadOrder)
          THEN /\ loaderThread' = [loaderThread EXCEPT
                                      ![t].pc = "set_id_map",
                                      ![t].table = @ + 1]
               /\ UNCHANGED loadDone
          ELSE /\ LoaderReturns(t, Ok(<<>>))
               /\ loadDone' = TRUE
    /\ UNCHANGED <<loaderCell, loaderCalls>>

(***************************************************************************)
(* src/location_records_loader.rs: find_location                           *)
(***************************************************************************)
CityCountryMatch(city, country, unmatched_state) ==
    [kind |-> "CityCountryMatch", city |-> city, country |-> country,
     unmatched_state |-> unmatched_state]

loader_init_partial_match_countries_to_skip == {Chars("United States")}

loader_init_partial_match_countries_to_override == {Chars("United Kingdom")}

state_names_vec ==
    << <<"lombardia", "lombardy">>, <<"toscana", "tuscany">>,
       <<"piemonte", "piedmont">>, <<"sardegna", "sardinia">>,
       <<"sicilia", "sicily">>, <<"puglia", "apulia">>,
       <<"trentinoalto_adige", "trentinosouth_tyrol">>,
       <<"bayern", "bavaria">>, <<"sachsen", "saxony">>,
       <<"niedersachsen", "lower_saxony">>,
       <<"rheinlandpfalz", "rhinelandpalatinate">>,
       <<"nordrheinwestfalen", "north_rhinewestphalia">>,
       <<"catalonia", "barcelona">>, <<"pais_vasco", "gipuzkoa">>,
       <<"pais_vasco", "bizkaia">>, <<"galicia", "pontevedra">>,
       <<"galicia", "a_coruna">>, <<"andalucia", "sevilla">>,
       <<"stockholms_lan", "stockholm_county">>,
       <<"skane_lan", "skane_county">>, <<"kalmar_lan", "kalmar_county">>,
       <<"vasternorrlands_lan", "vasternorrland_county">>,
       <<"vasterbottens_lan", "vasterbotten_county">>,
       <<"uppsala_lan", "uppsala_county">>,
       <<"norrbottens_lan", "norrbotten_county">>,
       <<"hallands_lan", "halland_county">>,
       <<"ostergotlands_lan", "ostergotland_county">>,
       <<"dalarnas_lan", "dalarna_county">>,
       <<"vastmanlands_lan", "vastmanland_county">>,
       <<"varmlands_lan", "varmland_county">>,
       <<"sodermanlands_lan", "sodermanland_county">>,
       <<"kronobergs_lan", "skane_county">>,
       <<"gotlands_lan", "gotland_county">>, <<"wien", "vienna">>,
       <<"geneve", "geneva">>, <<"nordpasdecalais", "hautsdefrance">>,
       <<"midipyrenees", "occitanie">>,
       <<"languedocroussillon", "occitanie">>,
       <<"provencealpescote_dazur", "provencealpescotedazur">>,
       <<"pays_de_la_loire", "paysdelaloire">>,
       <<"andhra_pradesh", "telangana">>, <<"hamerkaz", "central_district">>,
       <<"al_qahirah", "cairo">>, <<"adis_abeba", "addis_ababa">>,
       <<"na_south_africa", "gauteng">> >>

\* a table that holds each pair in the order it is written only
StateNamesOneWay ==
    { <<Chars(state_names_vec[i][1]), Chars(state_names_vec[i][2])>> :
      i \in DOMAIN state_names_vec }

\* the loop inserts every pair in both orders
init_partial_match_state_names ==
    { <<Chars(state_names_vec[i][1]), Chars(state_names_vec[i][2])>> :
      i \in DOMAIN state_names_vec }
    \cup
    { <<Chars(state_names_vec[i][2]), Chars(state_names_vec[i][1])>> :
      i \in DOMAIN state_names_vec }

\* find_state_by_id: Err(Loader) while the state id map is not set
find_state_by_id(state_id) ==
    IF ~OnceLockGet("STATE_ID_MAP").some THEN Err("Loader")
    ELSE Ok(MapGet(OnceLockGet("STATE_ID_MAP").val, state_id))

\* get_vec(&key) as the list the loops run over: None runs no iteration
GetVec(name_map, key) ==
    IF key \in DOMAIN name_map THEN name_map[key] ELSE <<>>

\* the first triple loop: the first (city, state, country), in the order of
\* the nested loops, whose ids agree
LoaderTier1(city_name_matches, state_name_matches, country_name_matches) ==
    LET hits ==
            { h \in (DOMAIN city_name_matches) \X (DOMAIN state_name_matches)
                     \X (DOMAIN country_name_matches) :
                LET city == city_name_matches[h[1]]
                    state == state_name_matches[h[2]]
                    country == country_name_matches[h[3]]
                IN /\ city.state_id = state.id
                   /\ city.country_id = country.id
                   /\ state.country_id = country.id }
        Before(g, h) ==
            \/ g[1] < h[1]
            \/ g[1] = h[1] /\ g[2] < h[2]
            \/ g[1] = h[1] /\ g[2] = h[2] /\ g[3] <= h[3]
        first == CHOOSE h \in hits : \A g \in hits : Before(h, g)
    IN IF hits = {} THEN None
       ELSE Some(FullMatch(city_name_matches[first[1]].id,
                           state_name_matches[first[2]].id,
                           country_name_matches[first[3]].id))

\* the second loop, for one city: the countries in their order.  None: the
\* loop ended without a return; Some(r): find_location returned r
RECURSIVE LoaderTier2Countries(_, _, _)
LoaderTier2Countries(city, country_name_matches, state) ==
    IF country_name_matches = <<>> THEN None
    ELSE LET country == Head(country_name_matches)
             rest == Tail(country_name_matches)
             full == FullMatch(city.id, city.state_id, country.id)
             found == find_state_by_id(city.state_id)
             unmatched_state_name ==
                 loader_normalize_location_str(found.val.val.name)
         IN IF country.name \in loader_init_partial_match_countries_to_skip
            THEN LoaderTier2Countries(city, rest, state)
            ELSE IF city.country_id # country.id
            THEN LoaderTier2Countries(city, rest, state)
            ELSE IF country.name
                      \in loader_init_partial_match_countries_to_override
            THEN Some(Ok(full))
            ELSE IF ~found.ok THEN Some(found)
            ELSE IF found.val.some
                    /\ (\/ Contains(unmatched_state_name, state)
                        \/ Contains(state, unmatched_state_name)
                        \/ <<state, unmatched_state_name>>
                              \in init_partial_match_state_names)
            THEN Some(Ok(full))
            ELSE Some(Ok(CityCountryMatch(city.id, country.id,
                                          city.state_id)))

\* a second loop that collects: a city a rule accepts gives FullMatch
\* wherever it stands in the list, and a CityCountryMatch needs the city to
\* be the only candidate
LoaderTier2Collecting(city_name_matches, country_name_matches, state) ==
    LET rs == [i \in DOMAIN city_name_matches |->
                  LoaderTier2Countries(city_name_matches[i],
                                       country_name_matches, state)]
        OfKind(kind) ==
            { i \in DOMAIN rs :
                rs[i].some /\ rs[i].val.ok /\ rs[i].val.val.kind = kind }
        First(is) == CHOOSE i \in is : \A j \in is : i <= j
    IN IF OfKind("FullMatch") # {} THEN rs[First(OfKind("FullMatch"))].val
       ELSE IF Cardinality(OfKind("CityCountryMatch")) = 1
       THEN rs[First(OfKind("CityCountryMatch"))].val
       ELSE Ok(NoMatch)

\* the second loop over the cities: the first city that returns decides
RECURSIVE LoaderTier2(_, _, _)
LoaderTier2(city_name_matches, country_name_matches, state) ==
    IF city_name_matches = <<>> THEN Ok(NoMatch)
    ELSE LET r == LoaderTier2Countries(Head(city_name_matches),
                                       country_name_matches, state)
         IN IF r.some THEN r.val
            ELSE LoaderTier2(Tail(city_name_matches), country_name_matches,
                             state)

\* find_location once the three name maps were read
LoaderFindLocation(city_in, state_in, country_in) ==
    LET city == loader_normalize_location_str(city_in)
        state == loader_normalize_location_str(state_in)
        country == loader_normalize_location_str(country_in)
        city_name_matches == GetVec(OnceLockGet("CITY_NAME_MAP").val, city)
        state_name_matches == GetVec(OnceLockGet("STATE_NAME_MAP").val, state)
        country_name_matches ==
            GetVec(OnceLockGet("COUNTRY_NAME_MAP").val, country)
        tier1 == LoaderTier1(city_name_matches, state_name_matches,
                             country_name_matches)
    IN IF tier1.some THEN Ok(tier1.val)
       ELSE LoaderTier2(city_name_matches, country_name_matches, state)

\* find_location: CITY_NAME_MAP.get().ok_or(Loader)?, then the same for
\* STATE_NAME_MAP and for COUNTRY_NAME_MAP
FindGetNameMap(t) ==
    /\ loaderThread[t].pc \in
          {"get_city_name_map", "get_state_name_map", "get_country_name_map"}
    /\ LET pc == loaderThread[t].pc
           c == CASE pc = "get_city_name_map" -> "CITY_NAME_MAP"
                  [] pc = "get_state_name_map" -> "STATE_NAME_MAP"
                  [] pc = "get_country_name_map" -> "COUNTRY_NAME_MAP"
           next == CASE pc = "get_city_name_map" -> "get_state_name_map"
                     [] pc = "get_state_name_map" -> "get_country_name_map"
                     [] pc = "get_country_name_map" -> "match"
       IN IF OnceLockGet(c).some
          THEN loaderThread' = [loaderThread EXCEPT ![t].pc = next]
          ELSE LoaderReturns(t, Err("Loader"))
    /\ UNCHANGED <<loaderCell, loaderCalls, loadDone>>

\* find_location: the two loops over the records the three maps gave
FindMatch(t) ==
    /\ loaderThread[t].pc = "match"
    /\ LoaderReturns(t, LoaderFindLocation(loaderThread[t].call.city,
                                           loaderThread[t].call.state,
                                           loaderThread[t].call.country))
    /\ UNCHANGED <<loaderCell, loaderCalls, loadDone>>

\* the variables the loader leaves alone
loaderOthers == <<normVars, finderVars>>

SomeLoadRecordsSetIdMap ==
    (\E t \in DOMAIN loaderThread : LoadRecordsSetIdMap(t))
    /\ UNCHANGED loaderOthers

SomeLoadRecordsSetNameMap ==
    (\E t \in DOMAIN loaderThread : LoadRecordsSetNameMap(t))
    /\ UNCHANGED loaderOthers

SomeLoadRecordsReturn ==
    (\E t \in DOMAIN loaderThread : LoadRecordsReturn(t))
    /\ UNCHANGED loaderOthers

SomeFindGetNameMap ==
    (\E t \in DOMAIN loaderThread : FindGetNameMap(t)) /\ UNCHANGED loaderOthers

SomeFindMatch ==
    (\E t \in DOMAIN loaderThread : FindMatch(t)) /\ UNCHANGED loaderOthers

(***************************************************************************)
(* SpecLoad: threads call load_location_records and the loader's           *)
(* find_location in any interleaving, on tables with and without an id     *)
(* that occurs twice                                                       *)
(***************************************************************************)
LoaderThreads == { ThreadNames[i] : i \in 1..NumThreads }

\* a directory that does not exist
MissingDir == "./data/missing"

LoadCalls ==
    { LoadCall(None),
      LoadCall(Some(OtherDir)),
      LoadCall(Some(MissingDir)),
      FindCall(Chars("Milan"), Chars("Lombardy"), Chars("Italy")),
      FindCall(Chars("Bath"), Chars("Zzz"), Chars("United Kingdom")) }

InitLoad ==
    /\ NormIdle
    /\ FinderQuiet
    /\ \E tables \in LazyTables :
          fs = (init_location_dataset_dir :> tables) @@ (OtherDir :> OtherTables)
    /\ loaderCell = [c \in LoaderCellNames |-> Unset]
    /\ loaderThread = [t \in LoaderThreads |-> LoaderThreadIdle]
    /\ loaderCalls = 0
    /\ loadDone = FALSE

\* a thread that is not inside a call makes one of the MaxCalls calls
LoadSomeCall ==
    /\ \E t \in DOMAIN loaderThread, call \in LoadCalls :
          loaderCalls < MaxCalls /\ LoaderCall(t, call)
    /\ UNCHANGED loaderOthers

NextLoad ==
    \/ LoadSomeCall
    \/ SomeLoadRecordsSetIdMap
    \/ SomeLoadRecordsSetNameMap
    \/ SomeLoadRecordsReturn
    \/ SomeFindGetNameMap
    \/ SomeFindMatch

SpecLoad == InitLoad /\ [][NextLoad]_vars

(***************************************************************************)
(* SpecLoaderMatch: one thread loads a gazetteer and then makes one        *)
(* find_location call                                                      *)
(***************************************************************************)
\* a state of the skip-listed country named like a state of Italy
TuscanyUS ==
    LocationState(11, Chars("Tuscany"), 1, Chars("United States"), Chars("TU"))

MilanTuscanyUS ==
    LocationCity(108, Chars("Milan"), 11, Chars("TU"), Chars("Tuscany"),
                 1, Chars("US"), Chars("United States"))

\* a state whose name is the other spelling of Lombardy
Lombardia ==
    LocationState(32, Chars("Lombardia"), 3, Chars("Italy"), Chars("LO"))

MilanLombardia ==
    LocationCity(109, Chars("Milan"), 32, Chars("LO"), Chars("Lombardia"),
                 3, Chars("IT"), Chars("Italy"))

LoaderStatesCsv ==
    File(<<Row(NewYork), Row(TuscanyUS), Row(England), Row(Lombardy),
           Row(Tuscany), Row(Lombardia)>>)

LoaderCityPool ==
    {MilanLombardy, MilanTuscany, BathEngland, BathNowhere, MilanTuscanyUS,
     MilanLombardia}

\* cities.csv: at most MaxRows rows of the pool, in the order of their ids
LoaderCitiesCsvs ==
    { File([i \in DOMAIN s |-> Row(s[i])]) :
      s \in { q \in SeqsUpTo(LoaderCityPool, MaxRows) :
               \A i \in 1..(Len(q) - 1) : q[i].id <= q[i + 1].id } }

LoaderFindCalls ==
    { FindCall(c, s, k) :
        c \in {Chars("Milan"), Chars("BATH")},
        s \in {Chars("Lombardy"), Chars("Lombardia"), Chars("Tuscany"),
               Chars("TOSCANA"), Chars("Zzz")},
        k \in {Chars("Italy"), Chars("United States"),
               Chars("united kingdom")} }

InitLoaderMatch ==
    /\ NormIdle
    /\ FinderQuiet
    /\ \E cities \in LoaderCitiesCsvs :
          fs = (init_location_dataset_dir :>
                  [countries |-> CountriesCsv, states |-> LoaderStatesCsv,
                   cities |-> cities])
    /\ loaderCell = [c \in LoaderCellNames |-> Unset]
    /\ loaderThread = [t \in {"t1"} |-> LoaderThreadIdle]
    /\ loaderCalls = 0
    /\ loadDone = FALSE

\* the thread loads the default directory
LoaderMatchLoad ==
    /\ \E t \in DOMAIN loaderThread :
          loaderCalls = 0 /\ LoaderCall(t, LoadCall(None))
    /\ UNCHANGED loaderOthers

\* after the load has returned, the thread makes its find_location call
LoaderMatchFind ==
    /\ \E t \in DOMAIN loaderThread, call \in LoaderFindCalls :
          loaderCalls = 1 /\ LoaderCall(t, call)
    /\ UNCHANGED loaderOthers

NextLoaderMatch ==
    \/ LoaderMatchLoad
    \/ LoaderMatchFind
    \/ SomeLoadRecordsSetIdMap
    \/ SomeLoadRecordsSetNameMap
    \/ SomeLoadRecordsReturn
    \/ SomeFindGetNameMap
    \/ SomeFindMatch

SpecLoaderMatch == InitLoaderMatch /\ [][NextLoaderMatch]_vars

(***************************************************************************)
(* The normalizer applied to every short string over NormChars             *)
(***************************************************************************)
MaxLen == 3

NormChars == {"a", "B", "1", " ", "\t", "-", "_", "U+00E9"}

FinderIdle ==
    /\ fs = EmptyMap
    /\ FinderQuiet

InitNorm ==
    /\ FinderIdle
    /\ LoaderIdle
    /\ normPc = "start"
    /\ normIn \in SeqsUpTo(NormChars, MaxLen)
    /\ normOut = <<>>
    /\ normTwice = <<>>

\* normalize_location_str(s)
NormalizeOnce ==
    /\ normPc = "start"
    /\ normOut' = normalize_location_str(normIn)
    /\ normPc' = "once"
    /\ UNCHANGED <<normIn, normTwice, finderVars, loaderVars>>

\* normalize_location_str(normalize_location_str(s))
NormalizeAgain ==
    /\ normPc = "once"
    /\ normTwice' = normalize_location_str(normOut)
    /\ normPc' = "twice"
    /\ UNCHANGED <<normIn, normOut, finderVars, loaderVars>>

NextNorm == NormalizeOnce \/ NormalizeAgain

SpecNorm == InitNorm /\ [][NextNorm]_vars

(***************************************************************************)
(* Claims about normalize_location_str                                     *)
(***************************************************************************)
\* C1: normalize_location_str is idempotent: normalizing a normalized
\* string gives the same string, also when it holds underscores.
C1_NormalizeIdempotent ==
    normPc = "twice" => normTwice = normOut

\* the algorithm in words: decompose, keep ASCII letters and digits (and the
\* whitespace between words), make every run of whitespace one word
\* boundary, join the words with underscores, lower-case
WordsJoined(s) ==
    LET kept == SelectSeq(Nfkd(s),
                          LAMBDA c : c \in AsciiUpper \cup AsciiLower
                                           \cup AsciiDigit \cup AsciiWhitespace)
    IN ToLowercase(Join(SplitAsciiWhitespace(kept), <<"_">>))

\* C18: normalize_location_str computes the algorithm for every input: a
\* letter with a diacritic gives its base letter, every run of whitespace of
\* any kind between words (spaces, tabs, newlines) gives one underscore,
\* whitespace at the ends gives none, the result is lower-case and the
\* empty string gives the empty string.
C18_NormalizeFollowsAlgorithm ==
    normPc # "start" => normOut = WordsJoined(normIn)

(***************************************************************************)
(* Claims about find_location of src/location_finder.rs                    *)
(***************************************************************************)
\* thread t has a result of find_location in hand
FoundBy(t) ==
    /\ thread[t].call.op = "find_location"
    /\ thread[t].pc = "returned"

\* the ids the published index holds under a key
Candidates(key) ==
    IF key \in DOMAIN CITY_NAME_MAP THEN CITY_NAME_MAP[key] ELSE <<>>

FullKeyOf(call) ==
    location_key(Some(normalize_location_str(call.city)),
                 Some(normalize_location_str(call.state)),
                 Some(normalize_location_str(call.country)))

CityCountryKeyOf(call) ==
    location_key(Some(normalize_location_str(call.city)), None,
                 Some(normalize_location_str(call.country)))

CountryNameOf(city_id) == COUNTRY_ID_MAP[CITY_ID_MAP[city_id].country_id].name

SkipListed(city_id) == CountryNameOf(city_id) = Chars("United States")

OverrideListed(city_id) == CountryNameOf(city_id) = Chars("United Kingdom")

\* the state text and the name of the city's state record, normalized, are
\* substrings of one another
SubstringRelated(city_id, state_in) ==
    LET canonical ==
            normalize_location_str(
                STATE_ID_MAP[CITY_ID_MAP[city_id].state_id].name)
        given == normalize_location_str(state_in)
    IN Contains(canonical, given) \/ Contains(given, canonical)

\* a Tier-2 candidate that a rule accepts as FullMatch
AcceptedInTier2(city_id, state_in) ==
    /\ ~SkipListed(city_id)
    /\ OverrideListed(city_id) \/ SubstringRelated(city_id, state_in)

\* a Tier-2 candidate that is recorded as a partial candidate
RecordedPartial(city_id, state_in) ==
    /\ ~SkipListed(city_id)
    /\ ~OverrideListed(city_id)
    /\ ~SubstringRelated(city_id, state_in)

\* C2: Tier 1.  Whenever the index holds an id under the full key, the call
\* returns FullMatch with the first id of that list and that city's own
\* state_id and country_id, skip-listed country or not.
C2_Tier1FirstCandidate ==
    \A t \in DOMAIN thread :
        (FoundBy(t) /\ Candidates(FullKeyOf(thread[t].call)) # <<>>) =>
            LET first == CITY_ID_MAP[Candidates(FullKeyOf(thread[t].call))[1]]
            IN thread[t].ret =
                   FullMatch(first.id, first.state_id, first.country_id)

\* a Tier-1 FullMatch for a city of a skip-listed country, picked among
\* two ids under the full key
C2_Witness ==
    \E t \in DOMAIN thread :
        /\ FoundBy(t)
        /\ Candidates(FullKeyOf(thread[t].call)) # <<>>
        /\ thread[t].ret.kind = "FullMatch"
        /\ SkipListed(thread[t].ret.city)

\* C3: ambiguity policy of Tier 2.  When Tier 1 finds nothing and no
\* candidate under the city+country key is accepted as FullMatch, the call
\* returns PartialMatch exactly if one candidate was recorded as partial,
\* with that candidate's ids; with none or several it returns NoMatch.
C3_PartialOnlyIfUnique ==
    \A t \in DOMAIN thread :
        LET call == thread[t].call
            cands == Candidates(CityCountryKeyOf(call))
            partials == { i \in DOMAIN cands :
                            RecordedPartial(cands[i], call.state) }
        IN (/\ FoundBy(t)
            /\ Candidates(FullKeyOf(call)) = <<>>
            /\ \A i \in DOMAIN cands : ~AcceptedInTier2(cands[i], call.state))
           => IF Cardinality(partials) = 1
              THEN LET only == CITY_ID_MAP[cands[CHOOSE i \in partials : TRUE]]
                   IN thread[t].ret =
                          PartialMatch(only.id, only.country_id, only.state_id)
              ELSE thread[t].ret = NoMatch

\* two same-named cities of one country, no matching state text: NoMatch
C3_Witness ==
    \E t \in DOMAIN thread :
        LET call == thread[t].call
            cands == Candidates(CityCountryKeyOf(call))
        IN /\ FoundBy(t)
           /\ Candidates(FullKeyOf(call)) = <<>>
           /\ Len(cands) >= 2
           /\ \A i \in DOMAIN cands : RecordedPartial(cands[i], call.state)
           /\ thread[t].ret = NoMatch

\* a single recorded candidate is returned as PartialMatch
C3_WitnessUnique ==
    \E t \in DOMAIN thread :
        LET call == thread[t].call
            cands == Candidates(CityCountryKeyOf(call))
        IN /\ FoundBy(t)
           /\ Candidates(FullKeyOf(call)) = <<>>
           /\ Cardinality({ i \in DOMAIN cands :
                              RecordedPartial(cands[i], call.state) }) = 1
           /\ thread[t].ret.kind = "PartialMatch"

\* C4: skip-list suppression.  When the full key has no candidate, no city
\* of a country named "United States" is returned, neither as FullMatch
\* nor as PartialMatch; when every candidate under the city+country key is
\* such a city the call returns NoMatch, whatever the state text.
C4_SkipListSuppressed ==
    \A t \in DOMAIN thread :
        LET call == thread[t].call
            cands == Candidates(CityCountryKeyOf(call))
        IN (FoundBy(t) /\ Candidates(FullKeyOf(call)) = <<>>) =>
              /\ thread[t].ret.kind \in {"FullMatch", "PartialMatch"}
                    => ~SkipListed(thread[t].ret.city)
              /\ (\A i \in DOMAIN cands : SkipListed(cands[i]))
                    => thread[t].ret = NoMatch

\* a city of the United States under the city+country key, a state text
\* that is not empty and matches nothing: NoMatch
C4_Witness ==
    \E t \in DOMAIN thread :
        LET call == thread[t].call
            cands == Candidates(CityCountryKeyOf(call))
        IN /\ FoundBy(t)
           /\ Candidates(FullKeyOf(call)) = <<>>
           /\ cands # <<>>
           /\ \A i \in DOMAIN cands : SkipListed(cands[i])
           /\ normalize_location_str(call.state) # <<>>
           /\ thread[t].ret = NoMatch

\* C5: override-list acceptance.  When a city under the city+country key
\* belongs to a country named "United Kingdom", the call returns FullMatch
\* for every state text, for a candidate of the call and with that
\* candidate's own state_id and country_id.
C5_OverrideAlwaysFullMatch ==
    \A t \in DOMAIN thread :
        LET call == thread[t].call
            cands == Candidates(CityCountryKeyOf(call))
        IN (FoundBy(t) /\ \E i \in DOMAIN cands : OverrideListed(cands[i])) =>
              /\ thread[t].ret.kind = "FullMatch"
              /\ thread[t].ret.city \in
                     Range(cands) \cup Range(Candidates(FullKeyOf(call)))
              /\ thread[t].ret.state = CITY_ID_MAP[thread[t].ret.city].state_id
              /\ thread[t].ret.country =
                     CITY_ID_MAP[thread[t].ret.city].country_id

\* a city of the United Kingdom found with a state text that names no
\* state, behind a candidate of another country that was recorded as partial
C5_Witness ==
    \E t \in DOMAIN thread :
        LET call == thread[t].call
            cands == Candidates(CityCountryKeyOf(call))
        IN /\ FoundBy(t)
           /\ Candidates(FullKeyOf(call)) = <<>>
           /\ Len(cands) >= 2
           /\ RecordedPartial(cands[1], call.state)
           /\ OverrideListed(cands[2])
           /\ ~SubstringRelated(cands[2], call.state)
           /\ thread[t].ret.kind = "FullMatch"

(***************************************************************************)
(* Claims about the lazy statics of src/location_finder.rs                 *)
(***************************************************************************)
\* the structures built on first use
LazyStructures ==
    {"CITY_ID_MAP", "STATE_ID_MAP", "COUNTRY_ID_MAP", "PLACE_ALIAS_MAP",
     "CITY_NAME_MAP"}

\* a static is empty or holds a whole value its initializer can end with
CompleteOrUnset(c) == cell[c].set => cell[c].val \in InitValues(c)

\* the step leaves every published static as it is
PublishedStays == \A c \in CellNames : cell[c].set => cell'[c] = cell[c]

\* C9: under every interleaving of find_location / get_*_by_id calls of the
\* threads, each of the three id maps, the alias map and the city key index
\* is published at most once; a static is seen either unset or holding the
\* complete value of its initializer, never a partly filled one; and a
\* published static never changes.
C9_PublishedOnceAndFrozen ==
    /\ [](\A c \in LazyStructures : pubCount[c] <= 1 /\ CompleteOrUnset(c))
    /\ [][PublishedStays]_vars

\* two threads needed the index: one built it while the other waited, every
\* structure was published once, and the one that waited now reads it
C9_Witness ==
    \E t, u \in DOMAIN thread :
        /\ t # u
        /\ thread[t].call.op = "find_location"
        /\ thread[t].pc = "returned"
        /\ thread[u].call.op = "find_location"
        /\ thread[u].pc = "running" /\ thread[u].stack = <<>>
        /\ \A c \in LazyStructures : pubCount[c] = 1

\* a caller finds the index unset while another thread is building it
C9_WitnessWaiting ==
    \E t, u \in DOMAIN thread :
        /\ t # u
        /\ thread[t].pc = "running" /\ thread[t].stack = <<>>
        /\ thread[t].call.op = "find_location"
        /\ ~cell["CITY_NAME_MAP"].set
        /\ initBy["CITY_NAME_MAP"] = u

\* a returning find_location leaves every static and the files as they are
FindReadsOnly ==
    \A t \in DOMAIN thread :
        (/\ thread[t].call.op = "find_location"
         /\ thread[t].pc = "running"
         /\ thread'[t].pc # "running")
        => /\ cell' = cell
           /\ fs' = fs
           /\ aliasFile' = aliasFile

\* C10: matcher invocations are independent.  Once the dataset is loaded,
\* every result find_location ever returned for an input triple is the
\* result the published statics give for that triple, so two calls with
\* the same triple return the same result whatever calls came before or
\* overlap them; and a find_location call past its initializers writes no
\* state that a later call reads.
C10_InvocationsIndependent ==
    /\ [](\A a \in answers :
            /\ a[2] = ResultOf(a[1])
            /\ \A b \in answers : a[1] = b[1] => a[2] = b[2])
    /\ [][FindReadsOnly]_vars

\* the same triple was matched before and after a call with another
\* triple, and both triples have their answers
C10_Witness ==
    /\ calls = 3
    /\ \E a, b \in answers : a[1] # b[1] /\ a[2].kind = "FullMatch"
    /\ \E t, u \in DOMAIN thread :
          /\ t # u
          /\ thread[t].pc = "returned" /\ thread[u].pc = "returned"
          /\ thread[t].call = thread[u].call
          /\ thread[t].call.op = "find_location"
          /\ thread[t].ret = thread[u].ret

(***************************************************************************)
(* Claims about src/location_records_loader.rs                             *)
(***************************************************************************)
\* thread t has returned from a find_location call of the loader
LoaderFound(t) ==
    /\ loaderThread[t].call.op = "find_location"
    /\ loaderThread[t].pc = "returned"

\* thread t has returned from load_location_records
LoadReturned(t) ==
    /\ loaderThread[t].call.op = "load_location_records"
    /\ loaderThread[t].pc = "returned"

\* the city records under the name the call's city text normalizes to
CitiesNamed(call) ==
    Range(GetVec(loaderCell["CITY_NAME_MAP"].val,
                 loader_normalize_location_str(call.city)))

\* the country records under the name the call's country text normalizes to
CountriesNamed(call) ==
    Range(GetVec(loaderCell["COUNTRY_NAME_MAP"].val,
                 loader_normalize_location_str(call.country)))

\* the state record of city c exists, its name normalizes to one spelling
\* of a table pair, and the text normalizes to a spelling of that pair
SpellingOfStateOf(c, state_in) ==
    /\ c.state_id \in DOMAIN loaderCell["STATE_ID_MAP"].val
    /\ LET canonical ==
               loader_normalize_location_str(
                   loaderCell["STATE_ID_MAP"].val[c.state_id].name)
           state == loader_normalize_location_str(state_in)
       IN \E p \in init_partial_match_state_names :
             p[1] = canonical /\ state \in {p[1], p[2]}

\* the call is about city c: its city text names c, its country text names
\* the country of c, its state text is a spelling of the state of c
AboutCity(call, c) ==
    /\ c \in CitiesNamed(call)
    /\ \E k \in CountriesNamed(call) : k.id = c.country_id
    /\ SpellingOfStateOf(c, call.state)

TableSymmetric ==
    \A p \in init_partial_match_state_names :
        <<p[2], p[1]>> \in init_partial_match_state_names

\* C6 as stated: the table holds (b,a) with (a,b), and for a city whose
\* state normalizes to one spelling of a pair, find_location with either
\* spelling of the pair as the state text (same city and country texts)
\* returns the same FullMatch.
C6_EitherSpellingSameFullMatch ==
    /\ TableSymmetric
    /\ \A t \in DOMAIN loaderThread :
          (LoaderFound(t) /\ loaderThread[t].ret.ok) =>
             \A c \in CitiesNamed(loaderThread[t].call) :
                AboutCity(loaderThread[t].call, c) =>
                   /\ loaderThread[t].ret.val.kind = "FullMatch"
                   /\ \A other \in LoaderFindCalls :
                         (/\ other.city = loaderThread[t].call.city
                          /\ other.country = loaderThread[t].call.country
                          /\ SpellingOfStateOf(c, other.state))
                         => LoaderFindLocation(other.city, other.state,
                                               other.country)
                              = loaderThread[t].ret

\* c is the only city of its name in the countries the call's country text
\* names, and its country is not on the skip-list
OnlyCandidate(call, c) ==
    /\ \A d \in CitiesNamed(call) :
          d # c => \A k \in CountriesNamed(call) : k.id # d.country_id
    /\ \A k \in CountriesNamed(call) :
          k.id = c.country_id
             => k.name \notin loader_init_partial_match_countries_to_skip

\* C6, amended: the table holds (b,a) with (a,b); and for a city that is
\* the only city of its name in the countries the country text names, whose
\* country is not skip-listed and whose state record normalizes to one
\* spelling of a table pair, find_location with either spelling of the pair
\* as the state text returns FullMatch with the ids of that city, of its
\* state and of its country.
C6_OnlyCandidateEitherSpelling ==
    /\ TableSymmetric
    /\ \A t \in DOMAIN loaderThread :
          (LoaderFound(t) /\ loaderThread[t].ret.ok) =>
             \A c \in CitiesNamed(loaderThread[t].call) :
                (/\ AboutCity(loaderThread[t].call, c)
                 /\ OnlyCandidate(loaderThread[t].call, c))
                => loaderThread[t].ret =
                      Ok(FullMatch(c.id, c.state_id, c.country_id))

\* a call that spells the state of its only candidate the other way of a
\* table pair has returned
C6_Witness ==
    \E t \in DOMAIN loaderThread :
        /\ LoaderFound(t) /\ loaderThread[t].ret.ok
        /\ \E c \in CitiesNamed(loaderThread[t].call) :
              /\ AboutCity(loaderThread[t].call, c)
              /\ OnlyCandidate(loaderThread[t].call, c)
              /\ loader_normalize_location_str(loaderThread[t].call.state)
                 # loader_normalize_location_str(
                       loaderCell["STATE_ID_MAP"].val[c.state_id].name)
              /\ loaderThread[t].ret.val.kind = "FullMatch"

\* the cities under the call's city name, in the order of the name map
CityList(call) ==
    GetVec(loaderCell["CITY_NAME_MAP"].val,
           loader_normalize_location_str(call.city))

StatesNamed(call) ==
    Range(GetVec(loaderCell["STATE_NAME_MAP"].val,
                 loader_normalize_location_str(call.state)))

\* no city, state and country under the three names agree in their ids
NoTripleAgrees(call) ==
    \A c \in CitiesNamed(call), s \in StatesNamed(call),
       k \in CountriesNamed(call) :
        ~(c.state_id = s.id /\ c.country_id = k.id /\ s.country_id = k.id)

\* city c lies in a country of the call's country name off the skip-list
InMatchedCountry(call, c) ==
    \E k \in CountriesNamed(call) :
        /\ k.id = c.country_id
        /\ k.name # Chars("United States")

\* the override list, the substring rule or the equivalence table accepts c
LoaderAccepts(call, c) ==
    \/ \E k \in CountriesNamed(call) :
          k.id = c.country_id /\ k.name = Chars("United Kingdom")
    \/ /\ c.state_id \in DOMAIN loaderCell["STATE_ID_MAP"].val
       /\ LET canonical ==
                  loader_normalize_location_str(
                      loaderCell["STATE_ID_MAP"].val[c.state_id].name)
              given == loader_normalize_location_str(call.state)
          IN \/ Contains(canonical, given)
             \/ Contains(given, canonical)
             \/ <<given, canonical>> \in init_partial_match_state_names

\* C19: first-match policy of the loader's find_location.  When no triple
\* gives a Tier-1 FullMatch, the first city of the list that lies in a
\* matched country off the skip-list decides alone: FullMatch for it if a
\* rule accepts it, and else CityCountryMatch for it at once, whatever
\* cities follow it in the list; without such a city the result is NoMatch.
C19_FirstCityDecides ==
    \A t \in DOMAIN loaderThread :
        LET call == loaderThread[t].call
            cities == CityList(call)
            deciders == { i \in DOMAIN cities : InMatchedCountry(call, cities[i]) }
        IN (LoaderFound(t) /\ loaderThread[t].ret.ok /\ NoTripleAgrees(call)) =>
              IF deciders = {} THEN loaderThread[t].ret = Ok(NoMatch)
              ELSE LET c == cities[CHOOSE i \in deciders :
                                      \A j \in deciders : i <= j]
                   IN loaderThread[t].ret =
                         IF LoaderAccepts(call, c)
                         THEN Ok(FullMatch(c.id, c.state_id, c.country_id))
                         ELSE Ok(CityCountryMatch(c.id, c.country_id,
                                                  c.state_id))

\* CityCountryMatch for the first of two same-named cities of the country,
\* where a rule would have accepted the second
C19_Witness ==
    \E t \in DOMAIN loaderThread :
        LET call == loaderThread[t].call
            cities == CityList(call)
        IN /\ LoaderFound(t) /\ loaderThread[t].ret.ok
           /\ NoTripleAgrees(call)
           /\ Len(cities) >= 2
           /\ InMatchedCountry(call, cities[1])
           /\ ~LoaderAccepts(call, cities[1])
           /\ InMatchedCountry(call, cities[2])
           /\ LoaderAccepts(call, cities[2])
           /\ loaderThread[t].ret.val.kind = "CityCountryMatch"
           /\ loaderThread[t].ret.val.city = cities[1].id

\* two rows of the file deserialized to records of the same id
HasDuplicateId(file) ==
    /\ file.exists
    /\ \E i, j \in DOMAIN file.rows :
          /\ i < j
          /\ file.rows[i].ok /\ file.rows[j].ok
          /\ file.rows[i].rec.id = file.rows[j].rec.id

\* C7: a duplicate id in the countries, states or cities table makes
\* load_location_records return Err(Loader), and after that failure none of
\* the maps is left published, whichever table holds the duplicate.  (Only
\* one call was made, so nothing but this load can have published a map.)
C7_DuplicateIdLeavesNothing ==
    \A t \in DOMAIN loaderThread :
        (/\ LoadReturned(t)
         /\ loaderCalls = 1
         /\ \E table \in Range(LoadOrder) :
               HasDuplicateId(FileOf(LoadDir(loaderThread[t].call), table)))
        => /\ loaderThread[t].ret = Err("Loader")
           /\ \A c \in LoaderCellNames : ~loaderCell[c].set

\* C8 as stated: find_location returns Err(Loader), and no Ok result, as
\* long as no load_location_records call has completed successfully.
C8_ErrUnlessLoadCompleted ==
    \A t \in DOMAIN loaderThread :
        (LoaderFound(t) /\ ~loadDone) => loaderThread[t].ret = Err("Loader")

\* a load that has stored its last map and has only to return Ok(())
LoadAtLastReturn(u) ==
    /\ loaderThread[u].call.op = "load_location_records"
    /\ loaderThread[u].pc = "logged"
    /\ loaderThread[u].table = Len(LoadOrder)

\* C8, amended: find_location returns Err(Loader), and no Ok result, as
\* long as the city name map, the last of the six maps a load publishes, is
\* not published: when no load was called, when the load failed, and while
\* a load is running and has not stored its last map.  The city name map is
\* published only by a load that has returned Ok or has only to return it.
C8_ErrUntilLastPublication ==
    /\ \A t \in DOMAIN loaderThread :
          (LoaderFound(t) /\ ~loaderCell["CITY_NAME_MAP"].set)
          => loaderThread[t].ret = Err("Loader")
    /\ loaderCell["CITY_NAME_MAP"].set
          => (loadDone \/ \E u \in DOMAIN loaderThread : LoadAtLastReturn(u))

\* find_location has returned Err(Loader) while a load that has published
\* the maps of the first two tables is still running
C8_Witness ==
    \E t, u \in DOMAIN loaderThread :
        /\ LoaderFound(t)
        /\ loaderThread[t].ret = Err("Loader")
        /\ loaderThread[u].call.op = "load_location_records"
        /\ loaderThread[u].pc \in {"set_id_map", "set_name_map"}
        /\ loaderThread[u].table = Len(LoadOrder)
        /\ loaderCell["STATE_NAME_MAP"].set

\* find_location has returned Err(Loader) after the only load failed
C8_WitnessFailed ==
    \E t, u \in DOMAIN loaderThread :
        /\ LoaderFound(t)
        /\ loaderThread[t].ret = Err("Loader")
        /\ LoadReturned(u)
        /\ ~loaderThread[u].ret.ok
        /\ loaderCell["COUNTRY_NAME_MAP"].set

(***************************************************************************)
(* Claims about the dataset directory of src/location_finder.rs            *)
(***************************************************************************)
\* thread t ends a set_location_dataset_dir call in this step
EndsSetDir(t) ==
    /\ thread[t].call.op = "set_location_dataset_dir"
    /\ thread[t].pc = "running"
    /\ thread'[t].pc # "running"

\* what a set_location_dataset_dir call may do in the step that ends it
SetDirStep(t) ==
    IF ~thread[t].call.dir.some
    THEN cell' = cell /\ thread'[t].pc = "returned"
    ELSE IF cell["LOCATION_DATASET_DIR"].set
    THEN cell' = cell /\ thread'[t].pc = "panicked"
    ELSE /\ cell' = [cell EXCEPT !["LOCATION_DATASET_DIR"] =
                         Published(thread[t].call.dir.val)]
         /\ thread'[t].pc = "returned"

\* the table an id map holds
TableOf(c) ==
    CASE c = "CITY_ID_MAP" -> "cities"
      [] c = "STATE_ID_MAP" -> "states"
      [] c = "COUNTRY_ID_MAP" -> "countries"

\* every published id map holds the table of the fixed directory
LoadedFromFixedDir ==
    \A c \in {"CITY_ID_MAP", "STATE_ID_MAP", "COUNTRY_ID_MAP"} :
        cell[c].set =>
            /\ cell["LOCATION_DATASET_DIR"].set
            /\ LET id_map == IF c = "CITY_ID_MAP" THEN cell[c].val.byId
                             ELSE cell[c].val
               IN Ok(id_map) =
                     load_records_by_id(FileOf(LOCATION_DATASET_DIR, TableOf(c)))

\* C11: the dataset directory is write-once.  set_location_dataset_dir(None)
\* changes nothing; Some(d) is stored only while no directory is fixed,
\* neither by an earlier Some-call nor by a first dataset access; a fixed
\* directory never changes; every table is loaded from the fixed directory;
\* and a later Some(_) panics and overwrites nothing.
C11_DatasetDirWriteOnce ==
    /\ [](pubCount["LOCATION_DATASET_DIR"] <= 1 /\ LoadedFromFixedDir)
    /\ [][/\ cell["LOCATION_DATASET_DIR"].set
              => cell'["LOCATION_DATASET_DIR"] = cell["LOCATION_DATASET_DIR"]
          /\ \A t \in DOMAIN thread : EndsSetDir(t) => SetDirStep(t)]_vars

\* a first dataset access fixed the default directory and loaded the cities
\* from it; a later set_location_dataset_dir(Some(d)) has panicked
C11_Witness ==
    \E t \in DOMAIN thread :
        /\ thread[t].call = SetDirCall(Some(OtherDir))
        /\ thread[t].pc = "panicked"
        /\ cell["LOCATION_DATASET_DIR"] = Published(init_location_dataset_dir)
        /\ cell["CITY_ID_MAP"].set

\* a Some-call fixed the directory before the first access, and the cities
\* were loaded from it
C11_WitnessSet ==
    /\ cell["LOCATION_DATASET_DIR"] = Published(OtherDir)
    /\ cell["CITY_ID_MAP"].set
    /\ DOMAIN CITY_ID_MAP = {105}

(***************************************************************************)
(* Claims about the Tier-2 rules of location_finder::find_location         *)
(***************************************************************************)
\* the state text and the name of the city's state record, normalized, are
\* a pair of the alias-equivalence table, in either order
TableRelated(city_id, state_in) ==
    LET canonical ==
            normalize_location_str(
                STATE_ID_MAP[CITY_ID_MAP[city_id].state_id].name)
        given == normalize_location_str(state_in)
    IN \/ <<given, canonical>> \in init_partial_match_state_names
       \/ <<canonical, given>> \in init_partial_match_state_names

\* C12: Tier-2 rule 4 of the key-index matcher.  When Tier 1 finds nothing
\* and a candidate under the city+country key is neither skip-listed nor
\* override-listed nor substring-related to the state text, but its state
\* name and the state text are a pair of the alias-equivalence table, the
\* call returns FullMatch and the candidate is not recorded as partial.
C12_AliasTableAccepts ==
    \A t \in DOMAIN thread :
        LET call == thread[t].call
            cands == Candidates(CityCountryKeyOf(call))
        IN (/\ FoundBy(t)
            /\ Candidates(FullKeyOf(call)) = <<>>
            /\ \E i \in DOMAIN cands :
                   /\ RecordedPartial(cands[i], call.state)
                   /\ TableRelated(cands[i], call.state))
           => thread[t].ret.kind = "FullMatch"

\* C13: the substring rule of Tier 2.  When Tier 1 finds nothing, the
\* first candidate under the city+country key that a rule accepts decides:
\* if it is neither skip-listed nor override-listed and the state text is a
\* substring of its state record's name, or the reverse (both normalized),
\* the call returns FullMatch with that candidate's id, state_id and
\* country_id, whatever candidates before it were recorded as partial.
C13_SubstringAccepts ==
    \A t \in DOMAIN thread :
        LET call == thread[t].call
            cands == Candidates(CityCountryKeyOf(call))
        IN (FoundBy(t) /\ Candidates(FullKeyOf(call)) = <<>>) =>
              \A i \in DOMAIN cands :
                 (/\ ~SkipListed(cands[i])
                  /\ ~OverrideListed(cands[i])
                  /\ SubstringRelated(cands[i], call.state)
                  /\ \A j \in 1..(i - 1) :
                        ~AcceptedInTier2(cands[j], call.state))
                 => LET c == CITY_ID_MAP[cands[i]]
                    IN thread[t].ret =
                           FullMatch(c.id, c.state_id, c.country_id)

\* the second candidate is accepted because the state text is a proper
\* part of its state's name, after the first was recorded as partial
C13_Witness ==
    \E t \in DOMAIN thread :
        LET call == thread[t].call
            cands == Candidates(CityCountryKeyOf(call))
        IN /\ FoundBy(t)
           /\ Candidates(FullKeyOf(call)) = <<>>
           /\ Len(cands) >= 2
           /\ RecordedPartial(cands[1], call.state)
           /\ ~OverrideListed(cands[2]) /\ ~SkipListed(cands[2])
           /\ SubstringRelated(cands[2], call.state)
           /\ normalize_location_str(call.state) = Chars("tusc")
           /\ thread[t].ret.kind = "FullMatch"
           /\ thread[t].ret.city = cands[2]

\* a candidate is accepted because the state text contains its state's name
C13_WitnessReverse ==
    \E t \in DOMAIN thread :
        LET call == thread[t].call
            cands == Candidates(CityCountryKeyOf(call))
        IN /\ FoundBy(t)
           /\ Candidates(FullKeyOf(call)) = <<>>
           /\ normalize_location_str(call.state) = Chars("tuscany_it")
           /\ thread[t].ret.kind = "FullMatch"
           /\ ~OverrideListed(thread[t].ret.city)

(***************************************************************************)
(* Claims about the keys of location_finder.rs                             *)
(***************************************************************************)
\* the alias lines registered for a city and for its state
CityAliasesOf(c) ==
    LET a == find_alias_city_names(c) IN IF a.some THEN Range(a.val) ELSE {}

StateAliasesOf(c) ==
    LET a == find_alias_state_names(STATE_ID_MAP[c.state_id])
    IN IF a.some THEN Range(a.val) ELSE {}

\* the normalized names a city, its state and its country go by
CityNamesOf(c) ==
    {normalize_location_str(c.name)}
    \cup { normalize_location_str(SplitTrim(a, ",")[1]) : a \in CityAliasesOf(c) }

StateNamesOf(c) ==
    {normalize_location_str(c.state_name),
     normalize_location_str(STATE_ID_MAP[c.state_id].name),
     normalize_location_str(STATE_ID_MAP[c.state_id].state_code)}
    \cup { normalize_location_str(SplitTrim(a, ",")[2]) : a \in CityAliasesOf(c) }
    \cup { normalize_location_str(SplitTrim(a, ",")[1]) : a \in StateAliasesOf(c) }

CountryNamesOf(c) ==
    {normalize_location_str(c.country_name),
     normalize_location_str(COUNTRY_ID_MAP[c.country_id].name),
     normalize_location_str(COUNTRY_ID_MAP[c.country_id].iso2),
     normalize_location_str(COUNTRY_ID_MAP[c.country_id].iso3)}

Tier1Hit(t) ==
    /\ FoundBy(t)
    /\ Candidates(FullKeyOf(thread[t].call)) # <<>>
    /\ thread[t].ret.kind = "FullMatch"

\* C14: a Tier-1 FullMatch for a city agrees with the input component by
\* component: the normalized city text is a name of the city, the normalized
\* state text a name or the code of its state, the normalized country text
\* the name or a code of its country.
C14_Tier1AgreesByComponent ==
    \A t \in DOMAIN thread :
        Tier1Hit(t) =>
            LET c == CITY_ID_MAP[thread[t].ret.city]
            IN /\ normalize_location_str(thread[t].call.city) \in CityNamesOf(c)
               /\ normalize_location_str(thread[t].call.state) \in StateNamesOf(c)
               /\ normalize_location_str(thread[t].call.country)
                      \in CountryNamesOf(c)

(***************************************************************************)
(* Claims about the key index of location_finder.rs                        *)
(***************************************************************************)
JoinKey2(a, b) == a \o <<"_">> \o b

JoinKey3(a, b, c) == a \o <<"_">> \o b \o <<"_">> \o c

\* the seven keys of city c under a city name and a state name
SevenVariants(c, city_name, state_name) ==
    LET city == normalize_location_str(city_name)
        state == normalize_location_str(state_name)
        country == normalize_location_str(c.country_name)
        code == normalize_location_str(STATE_ID_MAP[c.state_id].state_code)
        iso2 == normalize_location_str(COUNTRY_ID_MAP[c.country_id].iso2)
        iso3 == normalize_location_str(COUNTRY_ID_MAP[c.country_id].iso3)
    IN {JoinKey3(city, state, country), JoinKey2(city, country),
        JoinKey3(city, code, country), JoinKey3(city, code, iso2),
        JoinKey2(city, iso2), JoinKey3(city, code, iso3),
        JoinKey2(city, iso3)}

\* the keys whose list holds the city's id
IndexedKeys(c) ==
    { k \in DOMAIN CITY_NAME_MAP : c.id \in Range(CITY_NAME_MAP[k]) }

IndexBuilt == cell["CITY_NAME_MAP"].set

\* C15: completeness and deduplication of the key index.  Once the index is
\* built, every city's id is in the list under each of the city's seven
\* canonical keys, and no list holds an id twice.
C15_IndexCompleteNoDuplicates ==
    IndexBuilt =>
        /\ \A id \in DOMAIN CITY_ID_MAP :
              LET c == CITY_ID_MAP[id]
              IN \A k \in SevenVariants(c, c.name, c.state_name) :
                    k \in DOMAIN CITY_NAME_MAP /\ id \in Range(CITY_NAME_MAP[k])
        /\ \A k \in DOMAIN CITY_NAME_MAP :
              \A i, j \in DOMAIN CITY_NAME_MAP[k] :
                 CITY_NAME_MAP[k][i] = CITY_NAME_MAP[k][j] => i = j

\* an index of two cities, one with an alias that changes city and state
\* name, so that its alias expansions repeat its city+country key
C15_Witness ==
    /\ IndexBuilt
    /\ Cardinality(DOMAIN CITY_ID_MAP) = 2
    /\ \E id \in DOMAIN CITY_ID_MAP :
          /\ CityAliasesOf(CITY_ID_MAP[id]) # {}
          /\ \E a \in CityAliasesOf(CITY_ID_MAP[id]) :
                /\ SplitTrim(a, ",")[1] # CITY_ID_MAP[id].name
                /\ SplitTrim(a, ",")[2] # CITY_ID_MAP[id].state_name
          /\ Len(CITY_NAME_MAP[Chars("milan_italy")]) = 2

\* the names an alias leaves to choose from: the canonical one, and the
\* alternate where it differs
NameChoices(canonical, alternate) ==
    {canonical} \cup (IF alternate # canonical THEN {alternate} ELSE {})

\* the keys the canonical names and the alternates of city c give
ExpectedKeys(c) ==
    SevenVariants(c, c.name, c.state_name)
    \cup UNION { UNION { SevenVariants(c, x, y) :
                          x \in NameChoices(c.name, SplitTrim(a, ",")[1]),
                          y \in NameChoices(c.state_name, SplitTrim(a, ",")[2]) } :
                  a \in CityAliasesOf(c) }
    \cup UNION { SevenVariants(c, c.name, a) :
                  a \in { b \in StateAliasesOf(c) :
                            b # STATE_ID_MAP[c.state_id].name } }

\* C16: alias expansion defines the index exactly.  Once the index is
\* built, the keys under which a city is indexed are its seven canonical
\* keys, the seven keys for every choice of canonical or differing
\* alternate city and state name of each of its "altCity, altState"
\* aliases, and the seven keys with each differing alias of its state; no
\* other key holds the city.
C16_AliasExpansionExact ==
    IndexBuilt =>
        \A id \in DOMAIN CITY_ID_MAP :
            IndexedKeys(CITY_ID_MAP[id]) = ExpectedKeys(CITY_ID_MAP[id])

\* a city indexed under two aliases, one changing the city name only and
\* one changing both names
C16_Witness ==
    /\ IndexBuilt
    /\ \E id \in DOMAIN CITY_ID_MAP :
          LET c == CITY_ID_MAP[id]
          IN /\ \E a \in CityAliasesOf(c) :
                   /\ SplitTrim(a, ",")[1] # c.name
                   /\ SplitTrim(a, ",")[2] = c.state_name
             /\ \E a \in CityAliasesOf(c) :
                   /\ SplitTrim(a, ",")[1] # c.name
                   /\ SplitTrim(a, ",")[2] # c.state_name
             /\ Chars("milan_lombardia_italy") \in IndexedKeys(c)
             /\ Chars("milano_lombardy_italy") \in IndexedKeys(c)

\* a city whose only aliases equal its canonical names has its seven keys
C16_WitnessNoNewKey ==
    /\ IndexBuilt
    /\ \E id \in DOMAIN CITY_ID_MAP :
          LET c == CITY_ID_MAP[id]
          IN /\ CityAliasesOf(c) # {}
             /\ StateAliasesOf(c) # {}
             /\ IndexedKeys(c) = SevenVariants(c, c.name, c.state_name)

\* C17: the order of the candidates is not meaningful.  The result a
\* find_location call returned is the result the call has on the index
\* built from the same records and aliases in any other order of the
\* cities.
C17_OrderInsensitive ==
    \A t \in DOMAIN thread :
        FoundBy(t) =>
            \A o \in Perms(DOMAIN CITY_ID_MAP) :
                find_location_on(FoldCities(o, EmptyMap), thread[t].call.city,
                                 thread[t].call.state, thread[t].call.country)
                    = thread[t].ret

EmptyStateCall(t) ==
    /\ FoundBy(t)
    /\ normalize_location_str(thread[t].call.state) = <<>>

\* the candidates under the city+country key that are off the skip-list
OffSkipList(call) ==
    LET cands == Candidates(CityCountryKeyOf(call))
    IN { i \in DOMAIN cands : ~SkipListed(cands[i]) }

\* C20 as stated: when the state text normalizes to the empty string the
\* call returns no PartialMatch: it returns FullMatch if a candidate under
\* the city+country key is off the skip-list, and NoMatch otherwise.
C20_EmptyStateFullIffCandidate ==
    \A t \in DOMAIN thread :
        EmptyStateCall(t) =>
            /\ thread[t].ret.kind # "PartialMatch"
            /\ IF OffSkipList(thread[t].call) # {}
               THEN thread[t].ret.kind = "FullMatch"
               ELSE thread[t].ret = NoMatch

\* C20, amended: when the state text normalizes to the empty string the
\* call returns no PartialMatch.  If the index holds an id under the full
\* key with the empty state part, Tier 1 returns FullMatch; if not, the call
\* returns FullMatch for the first candidate under the city+country key
\* that is off the skip-list, and NoMatch if there is none.
C20_EmptyStateNeverPartial ==
    \A t \in DOMAIN thread :
        EmptyStateCall(t) =>
            LET call == thread[t].call
                cands == Candidates(CityCountryKeyOf(call))
                off == OffSkipList(call)
            IN /\ thread[t].ret.kind # "PartialMatch"
               /\ IF Candidates(FullKeyOf(call)) # <<>>
                  THEN thread[t].ret.kind = "FullMatch"
                  ELSE IF off # {}
                  THEN LET c == CITY_ID_MAP[
                                    cands[CHOOSE i \in off :
                                             \A j \in off : i <= j]]
                       IN thread[t].ret =
                              FullMatch(c.id, c.state_id, c.country_id)
                  ELSE thread[t].ret = NoMatch

\* a state text of punctuation only: FullMatch for a candidate whose
\* country is not on the override list
C20_Witness ==
    \E t \in DOMAIN thread :
        /\ EmptyStateCall(t)
        /\ thread[t].call.state # <<>>
        /\ Candidates(FullKeyOf(thread[t].call)) = <<>>
        /\ Len(Candidates(CityCountryKeyOf(thread[t].call))) = 2
        /\ thread[t].ret.kind = "FullMatch"
        /\ ~OverrideListed(thread[t].ret.city)

\* an empty state text and skip-listed candidates only: NoMatch
C20_WitnessNoMatch ==
    \E t \in DOMAIN thread :
        /\ EmptyStateCall(t)
        /\ Candidates(FullKeyOf(thread[t].call)) = <<>>
        /\ Candidates(CityCountryKeyOf(thread[t].call)) # <<>>
        /\ thread[t].ret = NoMatch

\* an empty state text and a city whose state code normalizes to the empty
\* string: Tier 1 returns FullMatch for a city of the skip-listed country
C20_WitnessTier1 ==
    \E t \in DOMAIN thread :
        /\ EmptyStateCall(t)
        /\ Candidates(FullKeyOf(thread[t].call)) # <<>>
        /\ OffSkipList(thread[t].call) = {}
        /\ thread[t].ret.kind = "FullMatch"

(***************************************************************************)
(* Claims about load_location_records of src/location_records_loader.rs    *)
(***************************************************************************)
PublicationOrder ==
    <<"COUNTRY_ID_MAP", "COUNTRY_NAME_MAP", "STATE_ID_MAP", "STATE_NAME_MAP",
      "CITY_ID_MAP", "CITY_NAME_MAP">>

\* the maps that are published are the first ones of the order
PublishedPrefix ==
    \A i, j \in DOMAIN PublicationOrder :
        (i < j /\ loaderCell[PublicationOrder[j]].set)
            => loaderCell[PublicationOrder[i]].set

\* all six maps are published, each with what load_records reads from the
\* table of one and the same directory
CompletelyLoaded ==
    \E dir \in DOMAIN fs :
        \A table \in {"countries", "states", "cities"} :
            LET read == ReadRecords(FileOf(dir, table))
            IN /\ read.ok
               /\ loaderCell[StaticIdMap(table)] = Published(read.val.id_map)
               /\ loaderCell[StaticNameMap(table)] =
                      Published(read.val.name_map)

\* find_location of thread t has read the city name map, or has returned Ok
PastCityNameMap(t) ==
    /\ loaderThread[t].call.op = "find_location"
    /\ \/ loaderThread[t].pc
             \in {"get_state_name_map", "get_country_name_map", "match"}
       \/ loaderThread[t].pc = "returned" /\ loaderThread[t].ret.ok

\* C21: publication order of the loader.  In every reachable state the
\* published maps are the first ones of the order country id, country name,
\* state id, state name, city id, city name, so a published city name map
\* means six published maps; and a find_location that did not return
\* Err(Loader) at its first read runs against six maps loaded completely
\* from one directory.
C21_PublicationOrder ==
    /\ PublishedPrefix
    /\ \A t \in DOMAIN loaderThread :
          IF PastCityNameMap(t) THEN CompletelyLoaded
          ELSE (LoaderFound(t) => loaderThread[t].ret = Err("Loader"))

\* while a load has published the maps of the countries and of the states
\* and not yet those of the cities, a find_location has returned Err(Loader)
C21_Witness ==
    \E t, u \in DOMAIN loaderThread :
        /\ LoaderFound(t)
        /\ loaderThread[t].ret = Err("Loader")
        /\ loaderThread[u].call.op = "load_location_records"
        /\ loaderThread[u].pc = "set_id_map"
        /\ loaderThread[u].table = 3
        /\ loaderCell["STATE_NAME_MAP"].set
        /\ ~loaderCell["CITY_ID_MAP"].set

\* a find_location runs in its loops while the load that published the six
\* maps has not returned yet
C21_WitnessConcurrent ==
    \E t, u \in DOMAIN loaderThread :
        /\ loaderThread[t].call.op = "find_location"
        /\ loaderThread[t].pc = "match"
        /\ loaderThread[u].call.op = "load_location_records"
        /\ loaderThread[u].pc = "logged"
        /\ CompletelyLoaded

\* a load failed after the maps of the countries were published
C21_WitnessFailedPartWay ==
    \E u \in DOMAIN loaderThread :
        /\ LoadReturned(u)
        /\ ~loaderThread[u].ret.ok
        /\ loaderCell["COUNTRY_NAME_MAP"].set
        /\ ~loaderCell["STATE_ID_MAP"].set
        /\ \A v \in DOMAIN loaderThread : loaderThread[v].pc \in {"idle", "returned"}

SomeMapPublished == \E c \in LoaderCellNames : loaderCell[c].set

\* thread t, inside load_location_records, takes its first step, the read
\* of countries.csv and the first set, in this step
FirstLoadStep(t) ==
    /\ loaderThread[t].call.op = "load_location_records"
    /\ loaderThread[t].pc = "set_id_map"
    /\ loaderThread[t].table = 1
    /\ loaderThread'[t] # loaderThread[t]

\* no load is between its first set and its return
NoLoadUnderWay ==
    \A u \in DOMAIN loaderThread :
        loaderThread[u].call.op = "load_location_records"
            => \/ loaderThread[u].pc \in {"idle", "returned"}
               \/ loaderThread[u].pc = "set_id_map" /\ loaderThread[u].table = 1

\* a load has failed part-way: some map is published, the city name map is
\* not, and the load that published is not running any more
FailedPartWay ==
    /\ SomeMapPublished
    /\ ~loaderCell["CITY_NAME_MAP"].set
    /\ NoLoadUnderWay

\* thread t returns from find_location in this step
FindReturns(t) ==
    /\ loaderThread[t].call.op = "find_location"
    /\ loaderThread[t].pc # "returned"
    /\ loaderThread'[t].pc = "returned"

\* C22 as stated: load_location_records is one-shot.  Once a map is
\* published, a load call that comes to its first set returns Err(Loader)
\* and changes no map; after a load that failed part-way the city name map
\* stays unpublished and find_location returns Err(Loader).
C22_LaterLoadErrLoader ==
    [][/\ \A t \in DOMAIN loaderThread :
             (SomeMapPublished /\ FirstLoadStep(t))
                => /\ loaderThread'[t].pc = "returned"
                   /\ loaderThread'[t].ret = Err("Loader")
                   /\ loaderCell' = loaderCell
       /\ FailedPartWay
             => /\ FailedPartWay'
                /\ \A t \in DOMAIN loaderThread :
                      FindReturns(t) => loaderThread'[t].ret = Err("Loader")
      ]_vars

\* C22, amended: once a map is published, a load call that comes to its
\* first set returns an error, Err(CSV) if the countries.csv of its
\* directory cannot be opened and Err(Loader) in every other case, and
\* changes no map; after a load that failed part-way the city name map stays
\* unpublished and find_location returns Err(Loader).
C22_LaterLoadErr ==
    [][/\ \A t \in DOMAIN loaderThread :
             (SomeMapPublished /\ FirstLoadStep(t))
                => /\ loaderThread'[t].pc = "returned"
                   /\ loaderThread'[t].ret =
                         IF FileOf(LoadDir(loaderThread[t].call),
                                   "countries").exists
                         THEN Err("Loader") ELSE Err("CSV")
                   /\ loaderCell' = loaderCell
       /\ FailedPartWay
             => /\ FailedPartWay'
                /\ \A t \in DOMAIN loaderThread :
                      FindReturns(t) => loaderThread'[t].ret = Err("Loader")
      ]_vars

\* after a load that failed part-way, a later load of a sound directory has
\* returned Err(Loader) and a find_location has returned Err(Loader)
C22_Witness ==
    \E t, u \in DOMAIN loaderThread :
        /\ FailedPartWay
        /\ loaderCalls = MaxCalls
        /\ LoadReturned(u)
        /\ loaderThread[u].call = LoadCall(Some(OtherDir))
        /\ loaderThread[u].ret = Err("Loader")
        /\ LoaderFound(t)
        /\ loaderThread[t].ret = Err("Loader")

\* after a load published, a load of the missing directory has returned
C22_WitnessMissingDir ==
    \E u \in DOMAIN loaderThread :
        /\ loadDone
        /\ loaderCalls >= 2
        /\ LoadReturned(u)
        /\ loaderThread[u].call = LoadCall(Some(MissingDir))
        /\ loaderThread[u].ret = Err("CSV")

=============================================================================
